---- MODULE Spec2Model ----
(***************************************************************************)
(* A model of the record-flattening and type-optimisation code of the      *)
(* fiap_mlops_datathon pipelines:                                          *)
(*   features_pipeline/nodes.py  clean_empty_values, process_*_record,     *)
(*                               process_all_json_data,                    *)
(*                               optimize_dataframe_types                  *)
(*   json_processing/nodes.py    process_all_json_data,                    *)
(*                               optimize_dataframe_types                  *)
(* The specifications share the variables:                                 *)
(*   SpecNorm     one call of clean_empty_values, and a second call on its *)
(*                result;                                                  *)
(*   SpecApplicant one call of process_applicant_record;                   *)
(*   Spec         one call of features_pipeline.process_all_json_data;     *)
(*   SpecBronze   one call of json_processing.process_all_json_data;       *)
(*   SpecOpt      the integer branch of optimize_dataframe_types on one    *)
(*                column;                                                  *)
(*   SpecTypes    one call of optimize_dataframe_types on a table;         *)
(*   SpecLayer    calls of the functions of data_processing/nodes.py:      *)
(*                process_sql_to_parquet, process_primary_tables,          *)
(*                process_core_primary;                                    *)
(*   SpecRun      one run of a pipeline of pipeline_registry.py;           *)
(*   SpecVaga     one call of process_vaga_record.                         *)
(***************************************************************************)
EXTENDS Integers, Sequences, FiniteSets, TLC

VARIABLES
    numpy_empty_bool,   \* what bool() of an empty numpy array does in this build
    value,              \* SpecNorm: the argument of clean_empty_values
    cleaned,            \* SpecNorm: outcome of clean_empty_values(value)
    recleaned,          \* SpecNorm: outcome of clean_empty_values on that result
    npc,                \* SpecNorm: position
    app_data,           \* SpecApplicant: the argument of process_applicant_record
    app_record,         \* SpecApplicant: its outcome
    apc,                \* SpecApplicant: position
    raw_applicants,     \* drivers: the raw mappings, as sequences of <<id, data>>
    raw_vagas,
    raw_prospects,
    applicants_records, \* drivers: the three record lists
    vagas_records,
    prospects_records,
    log,                \* drivers: the logger.error lines written so far
    tables,             \* drivers: the returned tables
    pc,                 \* drivers: the loop being run
    idx,                \* drivers: the next entry of that loop
    column,             \* SpecOpt: the values of one int64 column
    opt_module,         \* SpecOpt: which module's optimize_dataframe_types runs
    dtype,              \* SpecOpt: the column's dtype
    opc,                \* SpecOpt: position
    pandas_downcasts,   \* whether replace() re-infers an object column's dtype
    frames,             \* SpecTypes: the DataFrame objects, by reference
    df,                 \* SpecTypes: the argument (a reference into frames)
    optimized_df,       \* SpecTypes: the local optimized_df (0 before the copy)
    df_at_call,         \* SpecTypes: the argument's table when the call began
    col,                \* SpecTypes: the next column of the loop
    df_module,          \* SpecTypes: which module's optimize_dataframe_types
    tpc,                \* SpecTypes: position
    connections,        \* SpecLayer: the duckdb connections made so far
    con,                \* SpecLayer: the local con of process_core_primary (0: None)
    sql_log,            \* SpecLayer: the logger.error lines written so far
    call,               \* SpecLayer: the call being run, or the last one run
    pending,            \* SpecLayer: what the try block of the call produced
    outcome,            \* SpecLayer: what the last call returned or raised
    calls,              \* SpecLayer: calls begun so far
    lpc,                \* SpecLayer: position
    pipeline_name,      \* SpecRun: the registered pipeline being run
    catalog,            \* SpecRun: the datasets the catalog holds before the run
    available,          \* SpecRun: the datasets loadable now
    ran,                \* SpecRun: the nodes run so far, in order
    rpc,                \* SpecRun: position
    vaga_data,          \* SpecVaga: the argument of process_vaga_record
    vaga_result,        \* SpecVaga: its outcome and the lines it logged
    vpc                 \* SpecVaga: position

normVars  == <<value, cleaned, recleaned, npc>>
appVars   == <<app_data, app_record, apc>>
batchVars == <<raw_applicants, raw_vagas, raw_prospects, applicants_records,
               vagas_records, prospects_records, log, tables, pc, idx>>
optVars   == <<column, opt_module, dtype, opc>>
typVars   == <<pandas_downcasts, frames, df, optimized_df, df_at_call, col,
               df_module, tpc>>
layerVars == <<connections, con, sql_log, call, pending, outcome, calls, lpc>>
runVars   == <<pipeline_name, catalog, available, ran, rpc>>
vagaVars  == <<vaga_data, vaga_result, vpc>>
moreVars  == <<typVars, layerVars, runVars, vagaVars>>
vars      == <<numpy_empty_bool, normVars, appVars, batchVars, optVars, moreVars>>

(***************************************************************************)
(* Bounds of the model.                                                    *)
(***************************************************************************)
MaxStrLen == 3      \* longest string handed to clean_empty_values
MaxListLen == 2     \* longest list or mapping handed to clean_empty_values
MaxEntries == 2     \* entries of the three raw mappings, in total
MaxProspects == 2   \* longest embedded 'prospects' list
MaxRows == 2        \* longest column handed to optimize_dataframe_types
Delta == 1          \* column values lie within Delta of a tier boundary

(***************************************************************************)
(* Python values.  Every value has the same record shape:                  *)
(*   kind   "none" | "nan" | "str" | "num" | "bool" | "list" | "dict"      *)
(*   chars  the characters of a str                                        *)
(*   items  the elements of a list (a sequence), the entries of a dict (a  *)
(*          function from its keys)                                        *)
(*   n      the number of a num, 0/1 for a bool                            *)
(***************************************************************************)
Mk(k, c, i, n) == [kind |-> k, chars |-> c, items |-> i, n |-> n]
PyNone     == Mk("none", <<>>, <<>>, 0)
NaN        == Mk("nan", <<>>, <<>>, 0)
Str(c)     == Mk("str", c, <<>>, 0)
Num(n)     == Mk("num", <<>>, <<>>, n)
Bool(b)    == Mk("bool", <<>>, <<>>, IF b THEN 1 ELSE 0)
List(i)    == Mk("list", <<>>, i, 0)
Dict(i)    == Mk("dict", <<>>, i, 0)

Whitespace == {" ", "\t"}
Chars      == Whitespace \cup {"a"}

SeqsUpTo(S, n) == UNION {[1..k -> S] : k \in 0..n}

Strings  == {Str(c) : c \in SeqsUpTo(Chars, MaxStrLen)}
Scalars  == {PyNone, NaN, Num(0), Num(7), Bool(FALSE), Bool(TRUE),
             Str(<<>>), Str(<<" ">>), Str(<<"a">>)}
ListElems == {PyNone, NaN, Num(7), Str(<<>>), Str(<<"a">>)}
Lists    == {List(i) : i \in SeqsUpTo(ListElems, MaxListLen)}
MkFn(K, v) == IF K = {} THEN <<>> ELSE [k \in K |-> v]
KeyPool  == {"k1", "k2", "k3", "k4"}
Dicts    == {Dict(MkFn(K, Num(7))) :
                K \in {S \in SUBSET KeyPool : Cardinality(S) <= MaxListLen}}
Values   == Scalars \cup Strings \cup Lists \cup Dicts

size(v) == Cardinality(DOMAIN v.items)   \* len(value) of a list or dict

(***************************************************************************)
(* The outcome of a call: a returned value, or a raised exception.         *)
(***************************************************************************)
Ok(v)    == [tag |-> "ok", val |-> v, exc |-> ""]
Raise(e) == [tag |-> "raise", val |-> PyNone, exc |-> e]
NotCalled == [tag |-> "none", val |-> PyNone, exc |-> ""]

(***************************************************************************)
(* str.strip(): the string without its leading and trailing whitespace.    *)
(***************************************************************************)
RECURSIVE lstrip(_)
lstrip(c) == IF c # <<>> /\ Head(c) \in Whitespace THEN lstrip(Tail(c)) ELSE c

RECURSIVE rstrip(_)
rstrip(c) ==
    IF c # <<>> /\ c[Len(c)] \in Whitespace
    THEN rstrip(SubSeq(c, 1, Len(c) - 1)) ELSE c

strip(c) == rstrip(lstrip(c))

(***************************************************************************)
(* pandas.isna(value) followed by the truth test of `or`/`if`.             *)
(* A scalar gives a bool.  A list gives the element-wise array, whose      *)
(* truth value is that of its element when it has one, raises ValueError   *)
(* when it has several, and is False or raises when it has none, depending *)
(* on the numpy build.  Anything else (a dict) gives False.                *)
(***************************************************************************)
isna_scalar(v) == v.kind \in {"none", "nan"}

isna_truth(v) ==
    CASE v.kind \in {"none", "nan"} -> "True"
      [] v.kind = "list" /\ size(v) = 0 -> numpy_empty_bool
      [] v.kind = "list" /\ size(v) = 1 ->
            IF isna_scalar(v.items[1]) THEN "True" ELSE "False"
      [] v.kind = "list" /\ size(v) > 1 -> "ValueError"
      [] OTHER -> "False"

(***************************************************************************)
(* clean_empty_values, branch by branch.                                   *)
(***************************************************************************)
clean_str_trimmed(v) ==
    IF strip(v.chars) = <<>> THEN PyNone ELSE Str(strip(v.chars))

clean_str(v) == IF strip(v.chars) = <<>> THEN PyNone ELSE v

clean_collection(v) == IF size(v) = 0 THEN PyNone ELSE v

clean_empty_values(v) ==
    IF v.kind = "none" THEN Ok(PyNone)
    ELSE LET t == isna_truth(v) IN
         IF t = "ValueError" THEN Raise("ValueError")
         ELSE IF t = "True" THEN Ok(PyNone)
         ELSE IF v.kind = "str" THEN Ok(clean_str(v))
         ELSE IF v.kind \in {"list", "dict"} THEN Ok(clean_collection(v))
         ELSE Ok(v)

(***************************************************************************)
(* Idle values of the variables a specification does not use.              *)
(***************************************************************************)
NormIdle ==
    /\ value = PyNone /\ cleaned = NotCalled /\ recleaned = NotCalled
    /\ npc = "idle"
RecNotCalled == [tag |-> "none", rec |-> <<>>, exc |-> ""]
AppIdle ==
    /\ app_data = PyNone /\ app_record = RecNotCalled /\ apc = "idle"
BatchIdle ==
    /\ raw_applicants = <<>> /\ raw_vagas = <<>> /\ raw_prospects = <<>>
    /\ applicants_records = <<>> /\ vagas_records = <<>>
    /\ prospects_records = <<>> /\ log = <<>> /\ tables = <<>>
    /\ pc = "idle" /\ idx = 0
OptIdle ==
    /\ column = <<>> /\ opt_module = "none" /\ dtype = "none" /\ opc = "idle"

TypIdle ==
    /\ pandas_downcasts = FALSE /\ frames = <<>> /\ df = 0 /\ optimized_df = 0
    /\ df_at_call = <<>> /\ col = 0 /\ df_module = "none" /\ tpc = "idle"
NoCall == [fn |-> "none", sqls |-> <<>>, tables |-> <<>>, log_at_call |-> 0]
LayerIdle ==
    /\ connections = <<>> /\ con = 0 /\ sql_log = <<>> /\ call = NoCall
    /\ pending = [tag |-> "none", table |-> <<>>, exc |-> ""]
    /\ outcome = [tag |-> "none", table |-> <<>>, exc |-> ""]
    /\ calls = 0 /\ lpc = "off"
RunIdle ==
    /\ pipeline_name = "none" /\ catalog = {} /\ available = {} /\ ran = <<>>
    /\ rpc = "off"
VagaIdle ==
    /\ vaga_data = PyNone
    /\ vaga_result = [out |-> [tag |-> "none", rec |-> <<>>, exc |-> ""],
                      lines |-> <<>>]
    /\ vpc = "idle"
MoreIdle == TypIdle /\ LayerIdle /\ RunIdle /\ VagaIdle

NumpyBuilds == {"False", "ValueError"}

(***************************************************************************)
(* SpecNorm: clean_empty_values(value), then clean_empty_values of what    *)
(* it returned.                                                            *)
(***************************************************************************)
NormInit ==
    /\ numpy_empty_bool \in NumpyBuilds
    /\ value \in Values
    /\ cleaned = NotCalled /\ recleaned = NotCalled
    /\ npc = "call"
    /\ AppIdle /\ BatchIdle /\ OptIdle /\ MoreIdle

Clean ==
    /\ npc = "call"
    /\ cleaned' = clean_empty_values(value)
    /\ npc' = IF cleaned'.tag = "ok" THEN "again" ELSE "raised"
    /\ UNCHANGED <<numpy_empty_bool, moreVars, value, recleaned, appVars, batchVars, optVars>>

CleanAgain ==
    /\ npc = "again"
    /\ recleaned' = clean_empty_values(cleaned.val)
    /\ npc' = "done"
    /\ UNCHANGED <<numpy_empty_bool, moreVars, value, cleaned, appVars, batchVars, optVars>>

NormNext == Clean \/ CleanAgain

SpecNorm == NormInit /\ [][NormNext]_vars

AllWhitespace(c) == \A i \in 1..Len(c) : c[i] \in Whitespace

(* C4: clean_empty_values never raises on a list or a mapping; it returns  *)
(* the null marker for one with zero elements and the input unchanged for  *)
(* every non-empty one, whatever its length.                               *)
C4_CollectionsTotal ==
    (npc # "call" /\ value.kind \in {"list", "dict"}) =>
        /\ cleaned.tag = "ok"
        /\ cleaned.val = IF size(value) = 0 THEN PyNone ELSE value

(* C5: for every string s, clean_empty_values(s) is the null marker        *)
(* exactly when s is empty or whitespace-only, and otherwise is s itself,  *)
(* leading and trailing whitespace included.                               *)
C5_StringRule ==
    (npc # "call" /\ value.kind = "str") =>
        /\ cleaned.tag = "ok"
        /\ (cleaned.val = PyNone) <=> AllWhitespace(value.chars)
        /\ ~AllWhitespace(value.chars) => cleaned.val = value

C5_Witness ==
    /\ npc # "call"
    /\ value = Str(<<" ", "a", "\t">>)
    /\ cleaned = Ok(value)

(* C6: clean_empty_values is idempotent on every input: applying it to its *)
(* own result gives that result again.                                     *)
C6_Idempotent ==
    /\ npc # "call" => cleaned.tag = "ok"
    /\ npc = "done" => recleaned = cleaned

(***************************************************************************)
(* The field-extraction schemas: <<output field, sub-object key, leaf key>> *)
(* in the order the record literal lists them; a sub-object key of "" is   *)
(* the entry itself.  Both modules extract the same fields.                *)
(***************************************************************************)
applicant_fields ==
    << <<"nome", "infos_basicas", "nome">>,
       <<"email", "infos_basicas", "email">>,
       <<"telefone", "infos_basicas", "telefone">>,
       <<"telefone_recado", "infos_basicas", "telefone_recado">>,
       <<"data_criacao", "infos_basicas", "data_criacao">>,
       <<"data_atualizacao", "infos_basicas", "data_atualizacao">>,
       <<"inserido_por", "infos_basicas", "inserido_por">>,
       <<"codigo_profissional", "infos_basicas", "codigo_profissional">>,
       <<"objetivo_profissional", "infos_basicas", "objetivo_profissional">>,
       <<"cpf", "informacoes_pessoais", "cpf">>,
       <<"data_nascimento", "informacoes_pessoais", "data_nascimento">>,
       <<"sexo", "informacoes_pessoais", "sexo">>,
       <<"estado_civil", "informacoes_pessoais", "estado_civil">>,
       <<"pcd", "informacoes_pessoais", "pcd">>,
       <<"endereco", "informacoes_pessoais", "endereco">>,
       <<"linkedin", "informacoes_pessoais", "url_linkedin">>,
       <<"facebook", "informacoes_pessoais", "facebook">>,
       <<"skype", "informacoes_pessoais", "skype">>,
       <<"titulo_profissional", "informacoes_profissionais", "titulo_profissional">>,
       <<"area_atuacao", "informacoes_profissionais", "area_atuacao">>,
       <<"conhecimentos_tecnicos", "informacoes_profissionais", "conhecimentos_tecnicos">>,
       <<"certificacoes", "informacoes_profissionais", "certificacoes">>,
       <<"remuneracao", "informacoes_profissionais", "remuneracao">>,
       <<"nivel_profissional", "informacoes_profissionais", "nivel_profissional">>,
       <<"nivel_academico", "formacao_e_idiomas", "nivel_academico">>,
       <<"nivel_ingles", "formacao_e_idiomas", "nivel_ingles">>,
       <<"nivel_espanhol", "formacao_e_idiomas", "nivel_espanhol">>,
       <<"outro_idioma", "formacao_e_idiomas", "outro_idioma">>,
       <<"cv_pt", "", "cv_pt">>,
       <<"cv_en", "", "cv_en">> >>

vaga_fields ==
    << <<"titulo_vaga", "informacoes_basicas", "titulo_vaga">>,
       <<"cliente", "informacoes_basicas", "cliente">>,
       <<"solicitante_cliente", "informacoes_basicas", "solicitante_cliente">>,
       <<"empresa_divisao", "informacoes_basicas", "empresa_divisao">>,
       <<"requisitante", "informacoes_basicas", "requisitante">>,
       <<"analista_responsavel", "informacoes_basicas", "analista_responsavel">>,
       <<"tipo_contratacao", "informacoes_basicas", "tipo_contratacao">>,
       <<"data_requicisao", "informacoes_basicas", "data_requicisao">>,
       <<"limite_contratacao", "informacoes_basicas", "limite_esperado_para_contratacao">>,
       <<"vaga_sap", "informacoes_basicas", "vaga_sap">>,
       <<"prazo_contratacao", "informacoes_basicas", "prazo_contratacao">>,
       <<"objetivo_vaga", "informacoes_basicas", "objetivo_vaga">>,
       <<"prioridade_vaga", "informacoes_basicas", "prioridade_vaga">>,
       <<"origem_vaga", "informacoes_basicas", "origem_vaga">>,
       <<"pais", "perfil_vaga", "pais">>,
       <<"estado", "perfil_vaga", "estado">>,
       <<"cidade", "perfil_vaga", "cidade">>,
       <<"bairro", "perfil_vaga", "bairro">>,
       <<"local_trabalho", "perfil_vaga", "local_trabalho">>,
       <<"vaga_pcd", "perfil_vaga", "vaga_especifica_para_pcd">>,
       <<"faixa_etaria", "perfil_vaga", "faixa_etaria">>,
       <<"horario_trabalho", "perfil_vaga", "horario_trabalho">>,
       <<"nivel_profissional", "perfil_vaga", "nivel profissional">>,
       <<"nivel_academico", "perfil_vaga", "nivel_academico">>,
       <<"nivel_ingles", "perfil_vaga", "nivel_ingles">>,
       <<"nivel_espanhol", "perfil_vaga", "nivel_espanhol">>,
       <<"outro_idioma", "perfil_vaga", "outro_idioma">>,
       <<"areas_atuacao", "perfil_vaga", "areas_atuacao">>,
       <<"principais_atividades", "perfil_vaga", "principais_atividades">>,
       <<"competencias", "perfil_vaga", "competencia_tecnicas_e_comportamentais">>,
       <<"observacoes", "perfil_vaga", "demais_observacoes">>,
       <<"viagens_requeridas", "perfil_vaga", "viagens_requeridas">>,
       <<"equipamentos_necessarios", "perfil_vaga", "equipamentos_necessarios">>,
       <<"valor_venda", "beneficios", "valor_venda">>,
       <<"valor_compra_1", "beneficios", "valor_compra_1">>,
       <<"valor_compra_2", "beneficios", "valor_compra_2">> >>

prospect_fields ==
    << <<"nome", "", "nome">>,
       <<"codigo", "", "codigo">>,
       <<"situacao_candidado", "", "situacao_candidado">>,
       <<"data_candidatura", "", "data_candidatura">>,
       <<"ultima_atualizacao", "", "ultima_atualizacao">>,
       <<"comentario", "", "comentario">>,
       <<"recrutador", "", "recrutador">> >>

OutNames(fields) == {fields[i][1] : i \in DOMAIN fields}
SubKeys(fields)  == {fields[i][2] : i \in DOMAIN fields} \ {""}
LeafKeys(fields, sub) == {fields[i][3] : i \in {j \in DOMAIN fields : fields[j][2] = sub}}
IndexOf(fields, out) == CHOOSE i \in DOMAIN fields : fields[i][1] = out

(***************************************************************************)
(* dict.get(key, default); on anything but a dict the attribute lookup     *)
(* raises AttributeError.                                                  *)
(***************************************************************************)
EmptyDict == Dict(<<>>)
EmptyStr  == Str(<<>>)

get(d, key, default) ==
    IF d.kind # "dict" THEN Raise("AttributeError")
    ELSE IF key \in DOMAIN d.items THEN Ok(d.items[key]) ELSE Ok(default)

(* sub.get(key, default), where sub is data.get(subkey, {}) or data itself *)
leaf_get(data, subkey, key, default) ==
    IF subkey = "" THEN get(data, key, default)
    ELSE LET sub == get(data, subkey, EmptyDict) IN
         IF sub.tag = "raise" THEN sub ELSE get(sub.val, key, default)

(* clean_empty_values(sub.get(key)) *)
clean_leaf(data, subkey, key) ==
    LET got == leaf_get(data, subkey, key, PyNone) IN
    IF got.tag = "raise" THEN got ELSE clean_empty_values(got.val)

(* The first exception raised while the record literal is evaluated.       *)
first_raise(outs) ==
    LET bad == {i \in DOMAIN outs : outs[i].tag = "raise"} IN
    outs[CHOOSE i \in bad : \A j \in bad : i <= j]

(* The record literal: 'id' and one entry per field of the schema.         *)
build_record(idkey, id, fields, outs) ==
    [f \in OutNames(fields) \cup {idkey} |->
        IF f = idkey THEN Str(<<id>>) ELSE outs[IndexOf(fields, f)].val]

record_outcome(idkey, id, fields, outs) ==
    IF \E i \in DOMAIN outs : outs[i].tag = "raise"
    THEN [tag |-> "raise", rec |-> <<>>, exc |-> first_raise(outs).exc]
    ELSE [tag |-> "ok", rec |-> build_record(idkey, id, fields, outs), exc |-> ""]

(***************************************************************************)
(* features_pipeline.process_applicant_record                              *)
(***************************************************************************)
process_applicant_record(app_id, data) ==
    IF data.kind # "dict"
    THEN [tag |-> "raise", rec |-> <<>>, exc |-> "AttributeError"]
    ELSE record_outcome("id", app_id, applicant_fields,
            [i \in DOMAIN applicant_fields |->
                clean_leaf(data, applicant_fields[i][2], applicant_fields[i][3])])

(***************************************************************************)
(* Raw entries.  Absent marks a key the mapping does not hold.             *)
(***************************************************************************)
Absent == Mk("absent", <<>>, <<>>, 0)

(* the dict holding f's keys whose value is not Absent *)
DictOf(f) ==
    LET K == {k \in DOMAIN f : f[k] # Absent} IN
    Dict(IF K = {} THEN <<>> ELSE [k \in K |-> f[k]])

FirstLeafKey(fields, sub) ==
    fields[CHOOSE i \in DOMAIN fields :
              /\ fields[i][2] = sub
              /\ \A j \in DOMAIN fields : fields[j][2] = sub => i <= j][3]

(* a sub-object holding v under every leaf key of the schema but `missing` *)
SubDict(fields, sub, missing, v) ==
    Dict(MkFn(LeafKeys(fields, sub) \ missing, v))

LeafVals == {Str(<<"a">>), Str(<<" ", "a", " ">>), Str(<<" ">>),
             List(<<>>), List(<<Num(7), Num(7)>>)}

SubChoices(fields, sub) ==
    {Absent, PyNone, EmptyDict}
    \cup {SubDict(fields, sub, {}, v) : v \in LeafVals}
    \cup {SubDict(fields, sub, {FirstLeafKey(fields, sub)}, Str(<<"a">>))}

CvChoices == {<<Absent, Absent>>, <<Str(<<"a">>), Absent>>,
              <<EmptyStr, Str(<<"a">>)>>}

ApplicantDict(b, p, r, e, cv) ==
    DictOf([k \in SubKeys(applicant_fields) \cup {"cv_pt", "cv_en"} |->
        CASE k = "infos_basicas" -> b
          [] k = "informacoes_pessoais" -> p
          [] k = "informacoes_profissionais" -> r
          [] k = "formacao_e_idiomas" -> e
          [] k = "cv_pt" -> cv[1]
          [] k = "cv_en" -> cv[2]])

ApplicantInputs ==
    {PyNone, Str(<<"a">>)} \cup
    {ApplicantDict(b, p, r, e, cv) :
        b \in SubChoices(applicant_fields, "infos_basicas"),
        p \in SubChoices(applicant_fields, "informacoes_pessoais"),
        r \in SubChoices(applicant_fields, "informacoes_profissionais"),
        e \in SubChoices(applicant_fields, "formacao_e_idiomas"),
        cv \in CvChoices}

(***************************************************************************)
(* SpecApplicant: one call of process_applicant_record.                    *)
(***************************************************************************)
AppInit ==
    /\ numpy_empty_bool \in NumpyBuilds
    /\ app_data \in ApplicantInputs
    /\ app_record = RecNotCalled
    /\ apc = "call"
    /\ NormIdle /\ BatchIdle /\ OptIdle /\ MoreIdle

FlattenApplicant ==
    /\ apc = "call"
    /\ app_record' = process_applicant_record("a1", app_data)
    /\ apc' = "done"
    /\ UNCHANGED <<numpy_empty_bool, moreVars, app_data, normVars, batchVars, optVars>>

AppNext == FlattenApplicant

SpecApplicant == AppInit /\ [][AppNext]_vars

IsNull(v) == v.kind \in {"none", "nan"}

(* an empty value: null, a blank string, a collection without elements *)
IsEmptyValue(v) ==
    \/ IsNull(v)
    \/ v.kind = "str" /\ AllWhitespace(v.chars)
    \/ v.kind \in {"list", "dict"} /\ size(v) = 0

(* the leaf the schema entry names, Absent when a key on its path is missing *)
RawLeaf(data, sub, key) ==
    LET holder == IF sub = "" THEN data
                  ELSE IF sub \in DOMAIN data.items THEN data.items[sub]
                  ELSE EmptyDict
    IN IF key \in DOMAIN holder.items THEN holder.items[key] ELSE Absent

(* every sub-object the entry holds is a mapping *)
SubObjectsAreMappings(data, fields) ==
    /\ data.kind = "dict"
    /\ \A sub \in SubKeys(fields) :
          sub \in DOMAIN data.items => data.items[sub].kind = "dict"

(* C8: on an applicant mapping whose sub-objects and leaf keys may be      *)
(* absent, process_applicant_record does not raise and returns a record    *)
(* with the fixed set of output fields, every absent leaf the null marker  *)
(* and every present non-empty leaf its input value.                       *)
C8_ApplicantTotal ==
    (apc = "done" /\ SubObjectsAreMappings(app_data, applicant_fields)) =>
        /\ app_record.tag = "ok"
        /\ DOMAIN app_record.rec = OutNames(applicant_fields) \cup {"id"}
        /\ \A i \in DOMAIN applicant_fields :
              LET leaf == RawLeaf(app_data, applicant_fields[i][2],
                                  applicant_fields[i][3])
                  out == app_record.rec[applicant_fields[i][1]]
              IN /\ leaf = Absent => out = PyNone
                 /\ (leaf # Absent /\ ~IsEmptyValue(leaf)) => out = leaf

(***************************************************************************)
(* A logger.error line: the function that wrote it, what it reports, the   *)
(* id it names and, for the line that lists them, the keys of the entry.   *)
(***************************************************************************)
LogLine(fn, what, id, keys) == [fn |-> fn, what |-> what, id |-> id, keys |-> keys]

(***************************************************************************)
(* features_pipeline.process_vaga_record: the record, or the two log lines *)
(* of the except clause and the exception raised again.                    *)
(***************************************************************************)
vaga_error_lines(vaga_id, data) ==
    << LogLine("process_vaga_record", "error", vaga_id, {}),
       IF data.kind = "dict"
       THEN LogLine("process_vaga_record", "keys", vaga_id, DOMAIN data.items)
       ELSE LogLine("process_vaga_record", "not a dict", vaga_id, {}) >>

process_vaga_record_swallows(vaga_id, data) ==
    LET out == IF data.kind # "dict"
               THEN [tag |-> "raise", rec |-> <<>>, exc |-> "AttributeError"]
               ELSE record_outcome("id", vaga_id, vaga_fields,
                      [k \in DOMAIN vaga_fields |->
                          clean_leaf(data, vaga_fields[k][2], vaga_fields[k][3])])
    IN IF out.tag = "ok" THEN [out |-> out, lines |-> <<>>]
       ELSE [out |-> [tag |-> "ok", rec |-> [id |-> Str(<<vaga_id>>)], exc |-> ""],
             lines |-> vaga_error_lines(vaga_id, data)]

process_vaga_record(vaga_id, data) ==
    LET out == IF data.kind # "dict"
               THEN [tag |-> "raise", rec |-> <<>>, exc |-> "AttributeError"]
               ELSE record_outcome("id", vaga_id, vaga_fields,
                      [k \in DOMAIN vaga_fields |->
                          clean_leaf(data, vaga_fields[k][2], vaga_fields[k][3])])
    IN [out |-> out,
        lines |-> IF out.tag = "ok" THEN <<>> ELSE vaga_error_lines(vaga_id, data)]

(***************************************************************************)
(* Iterating a value with `for`: a list gives its elements, a str its      *)
(* characters, a dict its keys; None, a number or a bool raise TypeError.  *)
(***************************************************************************)
RECURSIVE SetToSeq(_)
SetToSeq(S) ==
    IF S = {} THEN <<>>
    ELSE LET x == CHOOSE y \in S : TRUE IN <<x>> \o SetToSeq(S \ {x})

iterate(v) ==
    CASE v.kind = "list" -> [tag |-> "ok", elems |-> v.items, exc |-> ""]
      [] v.kind = "str" ->
            [tag |-> "ok", elems |-> [k \in DOMAIN v.chars |-> Str(<<v.chars[k]>>)],
             exc |-> ""]
      [] v.kind = "dict" ->
            [tag |-> "ok",
             elems |-> LET ks == SetToSeq(DOMAIN v.items)
                       IN [k \in DOMAIN ks |-> Str(<<ks[k]>>)],
             exc |-> ""]
      [] OTHER -> [tag |-> "raise", elems |-> <<>>, exc |-> "TypeError"]

(***************************************************************************)
(* The prospect loop of both modules.  `outs[k]` is the outcome of         *)
(* building the record of element k; the loop stops at the first element   *)
(* whose record raises, with the records of the elements before it built.  *)
(***************************************************************************)
with_shared(rec, titulo, modalidade) ==
    [f \in DOMAIN rec \cup {"titulo", "modalidade"} |->
        IF f = "titulo" THEN titulo
        ELSE IF f = "modalidade" THEN modalidade ELSE rec[f]]

prospect_loop(outs, titulo, modalidade) ==
    LET bad  == {k \in DOMAIN outs : outs[k].tag = "raise"}
        stop == IF bad = {} THEN Len(outs) + 1
                ELSE CHOOSE k \in bad : \A j \in bad : k <= j
    IN [built |-> [k \in 1..(stop - 1) |->
                      with_shared(outs[k].rec, titulo, modalidade)],
        tag   |-> IF bad = {} THEN "ok" ELSE "raise",
        exc   |-> IF bad = {} THEN "" ELSE outs[stop].exc]

(***************************************************************************)
(* features_pipeline.process_prospect_record: the list of records of one   *)
(* group, or the exception; a raise leaves nothing of the group behind.    *)
(***************************************************************************)
prospect_element(prospect_id, prospect) ==
    record_outcome("prospect_id", prospect_id, prospect_fields,
        [k \in DOMAIN prospect_fields |->
            clean_leaf(prospect, "", prospect_fields[k][3])])

process_prospect_record_partial(prospect_id, data) ==
    LET titulo     == clean_leaf(data, "", "titulo")
        modalidade == clean_leaf(data, "", "modalidade")
        prospects  == get(data, "prospects", List(<<>>))
        failed(e)  == [tag |-> "raise", recs |-> <<>>, exc |-> e]
    IN IF titulo.tag = "raise" THEN failed(titulo.exc)
       ELSE IF modalidade.tag = "raise" THEN failed(modalidade.exc)
       ELSE LET it == iterate(prospects.val) IN
            IF it.tag = "raise" THEN failed(it.exc)
            ELSE LET loop == prospect_loop(
                                [k \in DOMAIN it.elems |->
                                    prospect_element(prospect_id, it.elems[k])],
                                titulo.val, modalidade.val)
                 IN [tag |-> "ok", recs |-> loop.built, exc |-> ""]

process_prospect_record(prospect_id, data) ==
    LET titulo     == clean_leaf(data, "", "titulo")
        modalidade == clean_leaf(data, "", "modalidade")
        prospects  == get(data, "prospects", List(<<>>))
        failed(e)  == [tag |-> "raise", recs |-> <<>>, exc |-> e]
    IN IF titulo.tag = "raise" THEN failed(titulo.exc)
       ELSE IF modalidade.tag = "raise" THEN failed(modalidade.exc)
       ELSE LET it == iterate(prospects.val) IN
            IF it.tag = "raise" THEN failed(it.exc)
            ELSE LET loop == prospect_loop(
                                [k \in DOMAIN it.elems |->
                                    prospect_element(prospect_id, it.elems[k])],
                                titulo.val, modalidade.val)
                 IN IF loop.tag = "raise" THEN failed(loop.exc)
                    ELSE [tag |-> "ok", recs |-> loop.built, exc |-> ""]

(***************************************************************************)
(* features_pipeline.process_all_json_data, one loop iteration each:       *)
(* `entry` is <<id, data>>; the result is the record list and the log      *)
(* after the iteration.                                                    *)
(***************************************************************************)
DriverLine(what, id) == LogLine("process_all_json_data", what, id, {})

(* `except Exception as e: logger.error(...); continue`: every exception   *)
(* the flatteners raise is an Exception, so the entry is logged and        *)
(* skipped; anything else would leave the driver.                          *)
Exceptions == {"AttributeError", "TypeError", "ValueError"}

skip_entry_reraises(records, lg, exc, what, id) ==
    [records |-> records, log |-> Append(lg, DriverLine(what, id)),
     escaped |-> TRUE]

skip_entry(records, lg, exc, what, id) ==
    IF exc \in Exceptions
    THEN [records |-> records, log |-> Append(lg, DriverLine(what, id)),
          escaped |-> FALSE]
    ELSE [records |-> records, log |-> lg, escaped |-> TRUE]

kept(records, lg) == [records |-> records, log |-> lg, escaped |-> FALSE]

applicant_iteration(records, lg, entry) ==
    LET out == process_applicant_record(entry[1], entry[2]) IN
    IF out.tag = "ok"
    THEN kept(Append(records, out.rec), lg)
    ELSE skip_entry(records, lg, out.exc, "applicant", entry[1])

vaga_iteration_silent(records, lg, entry) ==
    LET r == process_vaga_record(entry[1], entry[2]) IN
    IF r.out.tag = "ok"
    THEN kept(Append(records, r.out.rec), lg \o r.lines)
    ELSE kept(Append(records, [id |-> Str(<<entry[1]>>)]), lg \o r.lines)

vaga_iteration(records, lg, entry) ==
    LET r == process_vaga_record(entry[1], entry[2]) IN
    IF r.out.tag = "ok"
    THEN kept(Append(records, r.out.rec), lg \o r.lines)
    ELSE skip_entry(records, lg \o r.lines, r.out.exc, "job position", entry[1])

prospect_iteration(records, lg, entry) ==
    LET out == process_prospect_record(entry[1], entry[2]) IN
    IF out.tag = "ok"
    THEN kept(records \o out.recs, lg)
    ELSE skip_entry(records, lg, out.exc, "prospect", entry[1])

(***************************************************************************)
(* json_processing.process_all_json_data, one loop iteration each.  The    *)
(* record literals read every leaf with a default of '' and do not clean   *)
(* it; the prospect loop appends to prospects_records element by element.  *)
(***************************************************************************)
bronze_record(idkey, id, fields, data) ==
    IF data.kind # "dict"
    THEN [tag |-> "raise", rec |-> <<>>, exc |-> "AttributeError"]
    ELSE record_outcome(idkey, id, fields,
            [k \in DOMAIN fields |->
                leaf_get(data, fields[k][2], fields[k][3], EmptyStr)])

bronze_applicant_iteration(records, lg, entry) ==
    LET out == bronze_record("id", entry[1], applicant_fields, entry[2]) IN
    IF out.tag = "ok"
    THEN kept(Append(records, out.rec), lg)
    ELSE skip_entry(records, lg, out.exc, "applicant", entry[1])

bronze_vaga_iteration(records, lg, entry) ==
    LET out == bronze_record("id", entry[1], vaga_fields, entry[2]) IN
    IF out.tag = "ok"
    THEN kept(Append(records, out.rec), lg)
    ELSE skip_entry(records, lg, out.exc, "job position", entry[1])

bronze_prospect_iteration(records, lg, entry) ==
    LET data       == entry[2]
        titulo     == get(data, "titulo", EmptyStr)
        modalidade == get(data, "modalidade", EmptyStr)
        prospects  == get(data, "prospects", List(<<>>))
    IN IF titulo.tag = "raise"
       THEN skip_entry(records, lg, titulo.exc, "prospect", entry[1])
       ELSE LET it == iterate(prospects.val) IN
            IF it.tag = "raise"
            THEN skip_entry(records, lg, it.exc, "prospect", entry[1])
            ELSE LET loop == prospect_loop(
                                [k \in DOMAIN it.elems |->
                                    bronze_record("prospect_id", entry[1],
                                                  prospect_fields, it.elems[k])],
                                titulo.val, modalidade.val)
                 IN IF loop.tag = "ok" THEN kept(records \o loop.built, lg)
                    ELSE skip_entry(records \o loop.built, lg, loop.exc,
                                    "prospect", entry[1])

(***************************************************************************)
(* The tables returned.  pd.DataFrame keeps one row per record, in order;  *)
(* features_pipeline.optimize_dataframe_types first replaces every '' and  *)
(* whitespace-only cell by NaN, json_processing.optimize_dataframe_types   *)
(* replaces nothing.  Neither drops, adds or reorders rows.  (The dtype    *)
(* each column is given is the subject of SpecOpt.)                        *)
(***************************************************************************)
replace_blank(rec) ==
    [f \in DOMAIN rec |->
        IF rec[f].kind = "str" /\ strip(rec[f].chars) = <<>> THEN NaN ELSE rec[f]]

features_table(records) == [k \in DOMAIN records |-> replace_blank(records[k])]

bronze_table(records) == records

(***************************************************************************)
(* Raw batches.  An entry is not a mapping, an empty mapping, a mapping    *)
(* with a sub-object that is null, or a mapping with every leaf set to one *)
(* value; a prospect group carries an embedded list of up to MaxProspects  *)
(* elements, each a mapping or not.                                        *)
(***************************************************************************)
NotMapping == Str(<<"a">>)

ApplicantFull(v) ==
    ApplicantDict(SubDict(applicant_fields, "infos_basicas", {}, v),
                  SubDict(applicant_fields, "informacoes_pessoais", {}, v),
                  SubDict(applicant_fields, "informacoes_profissionais", {}, v),
                  SubDict(applicant_fields, "formacao_e_idiomas", {}, v),
                  <<v, v>>)

VagaDict(b, p, n) ==
    DictOf([k \in SubKeys(vaga_fields) |->
        CASE k = "informacoes_basicas" -> b
          [] k = "perfil_vaga" -> p
          [] k = "beneficios" -> n])

VagaFull(v) ==
    VagaDict(SubDict(vaga_fields, "informacoes_basicas", {}, v),
             SubDict(vaga_fields, "perfil_vaga", {}, v),
             SubDict(vaga_fields, "beneficios", {}, v))

ProspectElem(v) == Dict(MkFn(LeafKeys(prospect_fields, ""), v))

GroupDict(titulo, modalidade, prospects) ==
    DictOf([k \in {"titulo", "modalidade", "prospects"} |->
        CASE k = "titulo" -> titulo
          [] k = "modalidade" -> modalidade
          [] k = "prospects" -> prospects])

ApplicantEntries(L) ==
    {NotMapping, EmptyDict} \cup {ApplicantFull(v) : v \in L}

VagaEntries(L) ==
    {NotMapping, EmptyDict, VagaDict(PyNone, Absent, Absent)}
    \cup {VagaFull(v) : v \in L}

ProspectEntries(L) ==
    {NotMapping,
     GroupDict(Str(<<" ">>), Absent, Absent),
     GroupDict(Str(<<"a">>), Str(<<"a">>), PyNone)}
    \cup {GroupDict(Str(<<"a">>), Str(<<" ">>), List(es)) :
            es \in SeqsUpTo({ProspectElem(Str(<<"a">>)), NotMapping}, MaxProspects)}
    \cup {GroupDict(v, Str(<<"a">>), List(<<ProspectElem(v)>>)) : v \in L}

FeaturesLeafVals == {Str(<<"a">>), Str(<<" ">>), List(<<>>), List(<<Num(7), Num(7)>>)}
BronzeLeafVals   == {Str(<<"a">>), Str(<<" ">>), EmptyStr}

ApplicantIds == <<"a1", "a2", "a3", "a4">>
VagaIds      == <<"v1", "v2", "v3", "v4">>
ProspectIds  == <<"p1", "p2", "p3", "p4">>

(* a raw mapping of n entries: its items, in iteration order *)
RawMappings(ids, entries, n) ==
    {[k \in 1..n |-> <<ids[k], d[k]>>] : d \in [1..n -> entries]}

BatchInit(L) ==
    /\ \E na, nv, np \in 0..MaxEntries :
          /\ na + nv + np <= MaxEntries
          /\ raw_applicants \in RawMappings(ApplicantIds, ApplicantEntries(L), na)
          /\ raw_vagas \in RawMappings(VagaIds, VagaEntries(L), nv)
          /\ raw_prospects \in RawMappings(ProspectIds, ProspectEntries(L), np)
    /\ applicants_records = <<>> /\ vagas_records = <<>>
    /\ prospects_records = <<>> /\ log = <<>> /\ tables = <<>>
    /\ pc = "applicants" /\ idx = 1
    /\ NormIdle /\ AppIdle /\ OptIdle /\ MoreIdle

(***************************************************************************)
(* Spec: features_pipeline.process_all_json_data.                          *)
(***************************************************************************)
Init ==
    /\ numpy_empty_bool \in NumpyBuilds
    /\ BatchInit(FeaturesLeafVals)

Frame == UNCHANGED <<numpy_empty_bool, moreVars, normVars, appVars, optVars,
                     raw_applicants, raw_vagas, raw_prospects>>

ApplicantStep ==
    /\ pc = "applicants" /\ idx <= Len(raw_applicants)
    /\ LET r == applicant_iteration(applicants_records, log, raw_applicants[idx])
       IN applicants_records' = r.records /\ log' = r.log
          /\ pc' = IF r.escaped THEN "raised" ELSE pc
    /\ idx' = idx + 1
    /\ Frame /\ UNCHANGED <<vagas_records, prospects_records, tables>>

ApplicantsEnd ==
    /\ pc = "applicants" /\ idx > Len(raw_applicants)
    /\ pc' = "vagas" /\ idx' = 1
    /\ Frame
    /\ UNCHANGED <<applicants_records, vagas_records, prospects_records, log, tables>>

VagaStep ==
    /\ pc = "vagas" /\ idx <= Len(raw_vagas)
    /\ LET r == vaga_iteration(vagas_records, log, raw_vagas[idx])
       IN vagas_records' = r.records /\ log' = r.log
          /\ pc' = IF r.escaped THEN "raised" ELSE pc
    /\ idx' = idx + 1
    /\ Frame /\ UNCHANGED <<applicants_records, prospects_records, tables>>

VagasEnd ==
    /\ pc = "vagas" /\ idx > Len(raw_vagas)
    /\ pc' = "prospects" /\ idx' = 1
    /\ Frame
    /\ UNCHANGED <<applicants_records, vagas_records, prospects_records, log, tables>>

ProspectStep ==
    /\ pc = "prospects" /\ idx <= Len(raw_prospects)
    /\ LET r == prospect_iteration(prospects_records, log, raw_prospects[idx])
       IN prospects_records' = r.records /\ log' = r.log
          /\ pc' = IF r.escaped THEN "raised" ELSE pc
    /\ idx' = idx + 1
    /\ Frame /\ UNCHANGED <<applicants_records, vagas_records, tables>>

BuildFrames ==
    /\ pc = "prospects" /\ idx > Len(raw_prospects)
    /\ tables' = [applicants |-> features_table(applicants_records),
                  vagas      |-> features_table(vagas_records),
                  prospects  |-> features_table(prospects_records)]
    /\ pc' = "done"
    /\ Frame
    /\ UNCHANGED <<applicants_records, vagas_records, prospects_records, log, idx>>

Next ==
    \/ ApplicantStep \/ ApplicantsEnd
    \/ VagaStep \/ VagasEnd
    \/ ProspectStep \/ BuildFrames

Spec == Init /\ [][Next]_vars

(***************************************************************************)
(* SpecBronze: json_processing.process_all_json_data, the function the     *)
(* registered pipeline's process_bronze_data_node runs.                    *)
(***************************************************************************)
BronzeInit ==
    /\ numpy_empty_bool = "False"
    /\ BatchInit(BronzeLeafVals)

BronzeApplicantStep ==
    /\ pc = "applicants" /\ idx <= Len(raw_applicants)
    /\ LET r == bronze_applicant_iteration(applicants_records, log,
                                           raw_applicants[idx])
       IN applicants_records' = r.records /\ log' = r.log
          /\ pc' = IF r.escaped THEN "raised" ELSE pc
    /\ idx' = idx + 1
    /\ Frame /\ UNCHANGED <<vagas_records, prospects_records, tables>>

BronzeVagaStep ==
    /\ pc = "vagas" /\ idx <= Len(raw_vagas)
    /\ LET r == bronze_vaga_iteration(vagas_records, log, raw_vagas[idx])
       IN vagas_records' = r.records /\ log' = r.log
          /\ pc' = IF r.escaped THEN "raised" ELSE pc
    /\ idx' = idx + 1
    /\ Frame /\ UNCHANGED <<applicants_records, prospects_records, tables>>

BronzeProspectStep ==
    /\ pc = "prospects" /\ idx <= Len(raw_prospects)
    /\ LET r == bronze_prospect_iteration(prospects_records, log,
                                          raw_prospects[idx])
       IN prospects_records' = r.records /\ log' = r.log
          /\ pc' = IF r.escaped THEN "raised" ELSE pc
    /\ idx' = idx + 1
    /\ Frame /\ UNCHANGED <<applicants_records, vagas_records, tables>>

BronzeBuildFrames ==
    /\ pc = "prospects" /\ idx > Len(raw_prospects)
    /\ tables' = [applicants |-> bronze_table(applicants_records),
                  vagas      |-> bronze_table(vagas_records),
                  prospects  |-> bronze_table(prospects_records)]
    /\ pc' = "done"
    /\ Frame
    /\ UNCHANGED <<applicants_records, vagas_records, prospects_records, log, idx>>

BronzeNext ==
    \/ BronzeApplicantStep \/ ApplicantsEnd
    \/ BronzeVagaStep \/ VagasEnd
    \/ BronzeProspectStep \/ BronzeBuildFrames

SpecBronze == BronzeInit /\ [][BronzeNext]_vars

(***************************************************************************)
(* Helpers of the batch claims.                                            *)
(***************************************************************************)
RECURSIVE SumTo(_, _)
SumTo(f, n) == IF n = 0 THEN 0 ELSE f[n] + SumTo(f, n - 1)

(* the ids of the entries of `raw` whose index is in S, in iteration order *)
RECURSIVE IdsOf(_, _, _)
IdsOf(raw, S, n) ==
    IF n = 0 THEN <<>>
    ELSE IdsOf(raw, S, n - 1) \o (IF n \in S THEN <<Str(<<raw[n][1]>>)>> ELSE <<>>)

Column(rows, f) == [k \in DOMAIN rows |-> rows[k][f]]

(* flattening entry k of raw_vagas raises *)
VagaMalformed(k) ==
    process_vaga_record(raw_vagas[k][1], raw_vagas[k][2]).out.tag = "raise"

MalformedVagas == {k \in DOMAIN raw_vagas : VagaMalformed(k)}

DriverLines(what) == SelectSeq(log, LAMBDA l :
                        l.fn = "process_all_json_data" /\ l.what = what)

EmbeddedLen(data) ==
    IF data.kind = "dict" /\ "prospects" \in DOMAIN data.items
       /\ data.items["prospects"].kind = "list"
    THEN size(data.items["prospects"]) ELSE 0

(* flattening group k of raw_prospects raises *)
GroupRaises(k) ==
    process_prospect_record(raw_prospects[k][1], raw_prospects[k][2]).tag = "raise"

RowsOf(rows, id) == {k \in DOMAIN rows : rows[k]["prospect_id"] = Str(<<id>>)}

(* the value a shared field of the group has in its records *)
SharedField(data, key) ==
    LET v == IF key \in DOMAIN data.items THEN data.items[key] ELSE PyNone
    IN IF IsEmptyValue(v) THEN PyNone ELSE v

CarriesShared(rows, k) ==
    \A r \in RowsOf(rows, raw_prospects[k][1]) :
        /\ rows[r]["titulo"] = SharedField(raw_prospects[k][2], "titulo")
        /\ rows[r]["modalidade"] = SharedField(raw_prospects[k][2], "modalidade")

(* C2, as claimed: for every set of raw prospect groups the number of      *)
(* prospect records is the sum of the lengths of the groups' embedded      *)
(* lists, and a group with a list of length k yields exactly k records,    *)
(* each with the group's prospect_id, titulo and modalidade.               *)
C2_CountIsSumOfLengths ==
    pc = "done" =>
        /\ Len(tables.prospects) =
              SumTo([k \in DOMAIN raw_prospects |-> EmbeddedLen(raw_prospects[k][2])],
                    Len(raw_prospects))
        /\ \A k \in DOMAIN raw_prospects :
              /\ Cardinality(RowsOf(tables.prospects, raw_prospects[k][1]))
                    = EmbeddedLen(raw_prospects[k][2])
              /\ CarriesShared(tables.prospects, k)

(* C2, amended: the number of prospect records is the sum of the lengths   *)
(* of the embedded lists of the groups whose flattening does not raise; a  *)
(* group whose flattening raises yields no record, and a group with a list *)
(* of length k whose flattening does not raise yields exactly k records,   *)
(* each with the group's prospect_id and its normalised titulo and         *)
(* modalidade.                                                             *)
C2_CountIsSumOverFlattened ==
    pc = "done" =>
        /\ Len(tables.prospects) =
              SumTo([k \in DOMAIN raw_prospects |->
                        IF GroupRaises(k) THEN 0
                        ELSE EmbeddedLen(raw_prospects[k][2])],
                    Len(raw_prospects))
        /\ \A k \in DOMAIN raw_prospects :
              /\ Cardinality(RowsOf(tables.prospects, raw_prospects[k][1]))
                    = IF GroupRaises(k) THEN 0 ELSE EmbeddedLen(raw_prospects[k][2])
              /\ ~GroupRaises(k) => CarriesShared(tables.prospects, k)

C2_Witness ==
    /\ pc = "done"
    /\ Len(raw_prospects) = 2
    /\ GroupRaises(1) /\ EmbeddedLen(raw_prospects[1][2]) = 2
    /\ ~GroupRaises(2) /\ EmbeddedLen(raw_prospects[2][2]) = 2
    /\ Len(tables.prospects) = 2

(* flattening the group fails: it is not a mapping, its 'prospects' cannot *)
(* be iterated, or an element of the list is not a mapping                 *)
GroupFails(data) ==
    \/ data.kind # "dict"
    \/ /\ "prospects" \in DOMAIN data.items
       /\ \/ data.items["prospects"].kind # "list"
          \/ \E e \in DOMAIN data.items["prospects"].items :
                data.items["prospects"].items[e].kind # "dict"

(* C3: a prospect group whose flattening raises at any element of its list *)
(* is skipped whole: none of its records is in the prospects table, not    *)
(* even those of the elements before the failing one, and every record of  *)
(* every other group is.                                                   *)
C3_GroupSkippedWhole ==
    pc = "done" =>
        \A k \in DOMAIN raw_prospects :
            Cardinality(RowsOf(tables.prospects, raw_prospects[k][1])) =
                IF GroupFails(raw_prospects[k][2]) THEN 0
                ELSE EmbeddedLen(raw_prospects[k][2])

AllRows == [k \in 1..3 |-> CASE k = 1 -> tables.applicants
                             [] k = 2 -> tables.vagas
                             [] k = 3 -> tables.prospects]

(* C7: after the flatten-and-normalise stage no field of an emitted        *)
(* applicant, job or prospect record is an empty string, a whitespace-only *)
(* string, an empty list or an empty mapping: each such value, and each    *)
(* missing leaf, is the null marker.                                       *)
C7_NoEmptyCell ==
    pc = "done" =>
        \A t \in 1..3 : \A r \in DOMAIN AllRows[t] : \A f \in DOMAIN AllRows[t][r] :
            IsEmptyValue(AllRows[t][r][f]) => IsNull(AllRows[t][r][f])

(***************************************************************************)
(* 64-bit integers.  The thresholds of the width tiers reach 4294967295,   *)
(* so an integer is kept as two limbs <<h, l>>, its value h * 2^16 + l     *)
(* with 0 <= l < 2^16.                                                     *)
(***************************************************************************)
Limb == 2^16

FromInt(n) == <<n \div Limb, n % Limb>>

Add(a, b) == <<a[1] + b[1] + ((a[2] + b[2]) \div Limb), (a[2] + b[2]) % Limb>>

Lt(a, b) == a[1] < b[1] \/ (a[1] = b[1] /\ a[2] < b[2])
Le(a, b) == a = b \/ Lt(a, b)
Gt(a, b) == Lt(b, a)
Ge(a, b) == Le(b, a)

I32Max == FromInt(2147483647)
I32Min == Add(FromInt(-2147483647), FromInt(-1))
U32Max == Add(Add(I32Max, I32Max), FromInt(1))      \* 4294967295

(* the values a numpy integer dtype can hold *)
DtypeMin(t) ==
    CASE t = "uint8" -> FromInt(0) [] t = "uint16" -> FromInt(0)
      [] t = "uint32" -> FromInt(0)
      [] t = "int8" -> FromInt(-128) [] t = "int16" -> FromInt(-32768)
      [] t = "int32" -> I32Min

DtypeMax(t) ==
    CASE t = "uint8" -> FromInt(255) [] t = "uint16" -> FromInt(65535)
      [] t = "uint32" -> U32Max
      [] t = "int8" -> FromInt(127) [] t = "int16" -> FromInt(32767)
      [] t = "int32" -> I32Max

NarrowDtypes == {"uint8", "uint16", "uint32", "int8", "int16", "int32"}

col_min(cells) == CHOOSE m \in {cells[k] : k \in DOMAIN cells} :
                     \A k \in DOMAIN cells : Le(m, cells[k])
col_max(cells) == CHOOSE m \in {cells[k] : k \in DOMAIN cells} :
                     \A k \in DOMAIN cells : Ge(m, cells[k])

(***************************************************************************)
(* The dtype optimize_dataframe_types gives a null-free int64 column with  *)
(* the given min and max; "int64" when it leaves the column as it is.      *)
(***************************************************************************)
narrow_features_wide(lo, hi) ==
    IF Ge(lo, FromInt(0))
    THEN IF Le(hi, FromInt(256)) THEN "uint8"
         ELSE IF Lt(hi, FromInt(65535)) THEN "uint16"
         ELSE IF Lt(hi, U32Max) THEN "uint32"
         ELSE "int64"
    ELSE IF Gt(lo, FromInt(-128)) /\ Lt(hi, FromInt(127)) THEN "int8"
    ELSE IF Gt(lo, FromInt(-32768)) /\ Lt(hi, FromInt(32767)) THEN "int16"
    ELSE IF Gt(lo, I32Min) /\ Lt(hi, I32Max) THEN "int32"
    ELSE "int64"

narrow_features(lo, hi) ==
    IF Ge(lo, FromInt(0))
    THEN IF Lt(hi, FromInt(255)) THEN "uint8"
         ELSE IF Lt(hi, FromInt(65535)) THEN "uint16"
         ELSE IF Lt(hi, U32Max) THEN "uint32"
         ELSE "int64"
    ELSE IF Gt(lo, FromInt(-128)) /\ Lt(hi, FromInt(127)) THEN "int8"
    ELSE IF Gt(lo, FromInt(-32768)) /\ Lt(hi, FromInt(32767)) THEN "int16"
    ELSE IF Gt(lo, I32Min) /\ Lt(hi, I32Max) THEN "int32"
    ELSE "int64"

narrow_json_inclusive(lo, hi) ==
    IF Ge(lo, FromInt(0))
    THEN IF Le(hi, FromInt(255)) THEN "uint8"
         ELSE IF Le(hi, FromInt(65535)) THEN "uint16"
         ELSE IF Le(hi, U32Max) THEN "uint32"
         ELSE "int64"
    ELSE IF Ge(lo, FromInt(-128)) /\ Le(hi, FromInt(127)) THEN "int8"
    ELSE IF Ge(lo, FromInt(-32768)) /\ Le(hi, FromInt(32767)) THEN "int16"
    ELSE IF Ge(lo, I32Min) /\ Le(hi, I32Max) THEN "int32"
    ELSE "int64"

narrow_json(lo, hi) ==
    IF Ge(lo, FromInt(0))
    THEN IF Lt(hi, FromInt(255)) THEN "uint8"
         ELSE IF Lt(hi, FromInt(65535)) THEN "uint16"
         ELSE IF Lt(hi, U32Max) THEN "uint32"
         ELSE "int64"
    ELSE IF Gt(lo, FromInt(-128)) /\ Lt(hi, FromInt(127)) THEN "int8"
         ELSE IF Gt(lo, FromInt(-32768)) /\ Lt(hi, FromInt(32767)) THEN "int16"
         ELSE IF Gt(lo, I32Min) /\ Lt(hi, I32Max) THEN "int32"
         ELSE "int64"

(* the int64 branch of the column loop; min() and max() of a column with   *)
(* no rows are NaN, every comparison with them is False and the column is  *)
(* left as it is.  An int64 column never holds a null.                     *)
optimize_int_features(cells) ==
    IF cells = <<>> THEN "int64"
    ELSE narrow_features(col_min(cells), col_max(cells))

optimize_int_json(cells) ==
    IF cells = <<>> THEN "int64"
    ELSE narrow_json(col_min(cells), col_max(cells))

(***************************************************************************)
(* SpecOpt: optimize_dataframe_types on a table of one int64 column.       *)
(***************************************************************************)
Boundaries == {FromInt(0), FromInt(255), FromInt(65535), U32Max,
               FromInt(-128), FromInt(127), FromInt(-32768), FromInt(32767),
               I32Min, I32Max}

ColumnValues == {Add(b, FromInt(d)) : b \in Boundaries, d \in (0 - Delta)..Delta}

OptInit ==
    /\ numpy_empty_bool = "False"
    /\ column \in SeqsUpTo(ColumnValues, MaxRows)
    /\ opt_module \in {"features_pipeline", "json_processing"}
    /\ dtype = "int64"
    /\ opc = "call"
    /\ NormIdle /\ AppIdle /\ BatchIdle /\ MoreIdle

OptimizeFeatures ==
    /\ opc = "call" /\ opt_module = "features_pipeline"
    /\ dtype' = optimize_int_features(column)
    /\ opc' = "done"
    /\ UNCHANGED <<numpy_empty_bool, moreVars, column, opt_module, normVars, appVars, batchVars>>

OptimizeJson ==
    /\ opc = "call" /\ opt_module = "json_processing"
    /\ dtype' = optimize_int_json(column)
    /\ opc' = "done"
    /\ UNCHANGED <<numpy_empty_bool, moreVars, column, opt_module, normVars, appVars, batchVars>>

OptNext == OptimizeFeatures \/ OptimizeJson

SpecOpt == OptInit /\ [][OptNext]_vars

(* C9: whenever a column is narrowed to uint8/uint16/uint32/int8/int16/    *)
(* int32, every value of the column, its min and its max included, lies in *)
(* that type's representable range.                                        *)
C9_WidthHoldsValues ==
    (opc = "done" /\ dtype \in NarrowDtypes) =>
        \A k \in DOMAIN column :
            /\ Le(DtypeMin(dtype), column[k])
            /\ Le(column[k], DtypeMax(dtype))

C9_Witness ==
    /\ opc = "done"
    /\ dtype = "uint16"
    /\ Len(column) = 2
    /\ col_min(column) = FromInt(0)
    /\ col_max(column) = FromInt(255)

(* C10: for a null-free integer column the tiers are exact.  With min >= 0 *)
(* it becomes uint8 iff max < 255, uint16 iff 255 <= max < 65535, uint32   *)
(* iff 65535 <= max < 4294967295, and otherwise keeps its type; with       *)
(* min < 0 it becomes int8 iff min > -128 and max < 127, else int16 iff    *)
(* min > -32768 and max < 32767, else int32 iff min > -2147483648 and      *)
(* max < 2147483647, and otherwise keeps its type.                         *)
C10_TiersExact ==
    (opc = "done" /\ column # <<>>) =>
        LET lo == col_min(column)
            hi == col_max(column)
            in8  == Gt(lo, FromInt(-128)) /\ Lt(hi, FromInt(127))
            in16 == Gt(lo, FromInt(-32768)) /\ Lt(hi, FromInt(32767))
            in32 == Gt(lo, I32Min) /\ Lt(hi, I32Max)
        IN IF Ge(lo, FromInt(0))
           THEN /\ dtype = "uint8" <=> Lt(hi, FromInt(255))
                /\ dtype = "uint16" <=> (Ge(hi, FromInt(255)) /\ Lt(hi, FromInt(65535)))
                /\ dtype = "uint32" <=> (Ge(hi, FromInt(65535)) /\ Lt(hi, U32Max))
                /\ dtype = "int64" <=> Ge(hi, U32Max)
           ELSE /\ dtype = "int8" <=> in8
                /\ dtype = "int16" <=> (~in8 /\ in16)
                /\ dtype = "int32" <=> (~in8 /\ ~in16 /\ in32)
                /\ dtype = "int64" <=> (~in8 /\ ~in16 /\ ~in32)

C10_Witness ==
    /\ opc = "done"
    /\ column # <<>>
    /\ col_min(column) = FromInt(-128)
    /\ col_max(column) = FromInt(0)
    /\ dtype = "int16"

(***************************************************************************)
(* The width tiers of one signedness, narrowest first, and whether a tier  *)
(* can represent the closed interval [lo, hi].                             *)
(***************************************************************************)
UnsignedTiers == <<"uint8", "uint16", "uint32">>
SignedTiers   == <<"int8", "int16", "int32">>

TiersFor(lo) == IF Ge(lo, FromInt(0)) THEN UnsignedTiers ELSE SignedTiers

Represents(t, lo, hi) == Le(DtypeMin(t), lo) /\ Le(hi, DtypeMax(t))

(* C11: for a null-free integer column, features_pipeline's                *)
(* optimize_dataframe_types gives the narrowest tier of the column's       *)
(* signedness (unsigned when min >= 0, signed otherwise) that can          *)
(* represent [min, max]: whenever some tier can, the column gets a tier    *)
(* that can, and no narrower tier of that signedness could.                *)
C11_NarrowestTier ==
    (opc = "done" /\ opt_module = "features_pipeline" /\ column # <<>>) =>
        LET lo == col_min(column)
            hi == col_max(column)
            tiers == TiersFor(lo)
        IN  (\E k \in 1..3 : Represents(tiers[k], lo, hi)) =>
                \E k \in 1..3 :
                    /\ dtype = tiers[k]
                    /\ Represents(tiers[k], lo, hi)
                    /\ \A j \in 1..(k - 1) : ~Represents(tiers[j], lo, hi)

(***************************************************************************)
(* Tables.  A table is a sequence of columns, a column a dtype and its     *)
(* cells: [dtype |-> "object" | "int64" | "float64" | "Int64" | ...,       *)
(* cells |-> a sequence of values].  An int64 column holds numbers only    *)
(* (pandas stores a numeric column with a missing value as float64), a     *)
(* float64 or Int64 column numbers and nulls, an object column strings and *)
(* nulls.                                                                  *)
(***************************************************************************)
MaxCells == 3       \* rows of a one-column table
MaxWideRows == 1    \* rows of a two-column table

Column_(t, cells) == [dtype |-> t, cells |-> cells]

ObjectCells == {Str(<<"a">>), Str(<<"b">>), Str(<<>>), Str(<<" ">>), PyNone}
Int64Cells  == {Num(0), Num(10), Num(200), Num(-1)}
FloatCells  == {NaN, Num(1), Num(200)}
NullableIntCells == {NaN, Num(1)}

Columns(n) ==
    {Column_("object", c) : c \in [1..n -> ObjectCells]}
    \cup {Column_("int64", c) : c \in [1..n -> Int64Cells]}
    \cup {Column_("float64", c) : c \in [1..n -> FloatCells]}
    \cup {Column_("Int64", c) : c \in [1..n -> NullableIntCells]}

Tables ==
    {<<>>}
    \cup UNION {{<<c>> : c \in Columns(n)} : n \in 0..MaxCells}
    \cup UNION {{<<c1, c2>> : c1 \in Columns(n), c2 \in Columns(n)} :
                   n \in 0..MaxWideRows}

nrows(t) == IF t = <<>> THEN 0 ELSE Len(t[1].cells)      \* len(df)

notna(cells) == {k \in DOMAIN cells : ~IsNull(cells[k])}
nunique(cells) == Cardinality({cells[k] : k \in notna(cells)})

(***************************************************************************)
(* df.copy() and df.replace(...) return a new DataFrame object; a column   *)
(* assignment changes the object it is applied to.  frames holds the       *)
(* objects, a reference is an index into it.                               *)
(***************************************************************************)
copy_shared(h, r) == [heap |-> h, ref |-> r]

copy(h, r) == [heap |-> Append(h, h[r]), ref |-> Len(h) + 1]

is_empty_str(v) == v.kind = "str" /\ v.chars = <<>>          \* ''
is_blank_str(v) == v.kind = "str" /\ strip(v.chars) = <<>>   \* ^\s*$

(* to_replace: the literal '' or the regular expression ^\s*$ *)
matches(to_replace, v) ==
    IF to_replace = "" THEN is_empty_str(v) ELSE is_blank_str(v)

(* replace(pattern, np.nan) on one column.  Where a cell was replaced and  *)
(* no value is left in an object column, pandas builds that re-infer the   *)
(* dtype after a replacement make the column float64.                      *)
replace_column(c, to_replace) ==
    LET cells == [k \in DOMAIN c.cells |->
                    IF matches(to_replace, c.cells[k]) THEN NaN ELSE c.cells[k]]
        hit == \E k \in DOMAIN c.cells : matches(to_replace, c.cells[k])
    IN  Column_(IF /\ c.dtype = "object" /\ hit /\ notna(cells) = {}
                   /\ pandas_downcasts
                THEN "float64" ELSE c.dtype,
                cells)

replace(h, r, to_replace) ==
    [heap |-> Append(h, [j \in DOMAIN h[r] |-> replace_column(h[r][j], to_replace)]),
     ref |-> Len(h) + 1]

int_cells(cells) == [k \in 1..Cardinality(notna(cells)) |->
                        FromInt(cells[SetToSeq(notna(cells))[k]].n)]

(* features_pipeline, the body of the column loop: the dtype the column    *)
(* is given.                                                               *)
categorical_features(c) ==
    IF notna(c.cells) # {}
    THEN IF 2 * nunique(c.cells) < Cardinality(notna(c.cells))
         THEN "category" ELSE c.dtype
    ELSE c.dtype

numeric_features_unchecked(c) == optimize_int_features(int_cells(c.cells))

numeric_features(c) ==
    LET has_nulls == \E k \in DOMAIN c.cells : IsNull(c.cells[k])
    IN  IF c.dtype = "int64"
        THEN IF has_nulls THEN "Int64"
             ELSE optimize_int_features(int_cells(c.cells))
        ELSE c.dtype

optimize_column_features(c) ==
    Column_(IF c.dtype = "object" THEN categorical_features(c)
            ELSE IF c.dtype \in {"int64", "float64"} THEN numeric_features(c)
            ELSE c.dtype,
            c.cells)

(* json_processing, the body of the column loop; the ratio divides by      *)
(* len(optimized_df), which raises ZeroDivisionError for a table without   *)
(* rows.                                                                   *)
categorical_json(c, len) ==
    IF len = 0 THEN "ZeroDivisionError"
    ELSE IF 2 * nunique(c.cells) < len THEN "category" ELSE c.dtype

optimize_column_json(c, len) ==
    Column_(IF c.dtype = "object" THEN categorical_json(c, len)
            ELSE IF c.dtype = "int64"
                 THEN optimize_int_json(int_cells(c.cells))
            ELSE c.dtype,
            c.cells)

(***************************************************************************)
(* SpecTypes: one call of optimize_dataframe_types(df), of either module.  *)
(***************************************************************************)
TypFrame == UNCHANGED <<numpy_empty_bool, normVars, appVars, batchVars, optVars,
                        layerVars, runVars, vagaVars, pandas_downcasts, df,
                        df_at_call, df_module>>

TypInit ==
    /\ numpy_empty_bool = "False"
    /\ pandas_downcasts \in BOOLEAN
    /\ \E t \in Tables : frames = <<t>> /\ df_at_call = t
    /\ df = 1
    /\ optimized_df = 0
    /\ col = 0
    /\ df_module \in {"features_pipeline", "json_processing"}
    /\ tpc = "copy"
    /\ NormIdle /\ AppIdle /\ BatchIdle /\ OptIdle /\ LayerIdle /\ RunIdle
    /\ VagaIdle

(* optimized_df = df.copy() *)
CopyFrame ==
    /\ tpc = "copy"
    /\ LET r == copy(frames, df) IN
        /\ frames' = r.heap
        /\ optimized_df' = r.ref
    /\ col' = 1
    /\ tpc' = IF df_module = "features_pipeline" THEN "replace_empty" ELSE "columns"
    /\ TypFrame

(* optimized_df = optimized_df.replace('', np.nan) *)
ReplaceEmpty ==
    /\ tpc = "replace_empty"
    /\ LET r == replace(frames, optimized_df, "") IN
        /\ frames' = r.heap
        /\ optimized_df' = r.ref
    /\ tpc' = "replace_blank"
    /\ UNCHANGED col
    /\ TypFrame

(* optimized_df = optimized_df.replace(r'^\s*$', np.nan, regex=True) *)
ReplaceBlank ==
    /\ tpc = "replace_blank"
    /\ LET r == replace(frames, optimized_df, "^\\s*$") IN
        /\ frames' = r.heap
        /\ optimized_df' = r.ref
    /\ tpc' = "columns"
    /\ UNCHANGED col
    /\ TypFrame

(* one pass of the column loop *)
FeaturesColumn ==
    /\ tpc = "columns" /\ df_module = "features_pipeline"
    /\ col <= Len(frames[optimized_df])
    /\ frames' = [frames EXCEPT ![optimized_df][col] =
                     optimize_column_features(frames[optimized_df][col])]
    /\ col' = col + 1
    /\ UNCHANGED <<optimized_df, tpc>>
    /\ TypFrame

JsonColumn ==
    /\ tpc = "columns" /\ df_module = "json_processing"
    /\ col <= Len(frames[optimized_df])
    /\ LET c == optimize_column_json(frames[optimized_df][col],
                                     nrows(frames[optimized_df]))
       IN  IF c.dtype = "ZeroDivisionError"
           THEN /\ tpc' = "raised"
                /\ UNCHANGED <<frames, col>>
           ELSE /\ frames' = [frames EXCEPT ![optimized_df][col] = c]
                /\ col' = col + 1
                /\ UNCHANGED tpc
    /\ UNCHANGED optimized_df
    /\ TypFrame

(* return optimized_df *)
ReturnFrame ==
    /\ tpc = "columns"
    /\ col > Len(frames[optimized_df])
    /\ tpc' = "done"
    /\ UNCHANGED <<frames, optimized_df, col>>
    /\ TypFrame

TypNext ==
    \/ CopyFrame \/ ReplaceEmpty \/ ReplaceBlank
    \/ FeaturesColumn \/ JsonColumn \/ ReturnFrame

SpecTypes == TypInit /\ [][TypNext]_vars

(* the table the call returned, and column j of the argument *)
Returned == frames[optimized_df]
Given(j) == df_at_call[j]

NumericDtypes == {"int64", "float64", "Int64"}
NullableDtypes == {"float64", "Int64"}

HasNull(c) == \E k \in DOMAIN c.cells : IsNull(c.cells[k])

(* C12: a numeric column with at least one null comes back with a nullable *)
(* dtype (float64 or Int64), never a fixed-width integer dtype; every null *)
(* cell is still null and every other cell keeps its value.                *)
C12_NullsKept ==
    tpc = "done" =>
        \A j \in DOMAIN df_at_call :
            (Given(j).dtype \in NumericDtypes /\ HasNull(Given(j))) =>
                /\ Returned[j].dtype \in NullableDtypes
                /\ \A k \in DOMAIN Given(j).cells :
                    IF IsNull(Given(j).cells[k])
                    THEN IsNull(Returned[j].cells[k])
                    ELSE Returned[j].cells[k] = Given(j).cells[k]

C12_Witness ==
    /\ tpc = "done"
    /\ df_module = "features_pipeline"
    /\ df_at_call = <<Column_("float64", <<Num(1), NaN, Num(200)>>)>>
    /\ Returned[1].dtype = "float64"

(* the cells of a textual column that count as values: not null, and not   *)
(* an empty or whitespace-only string                                      *)
TextValues(c) == {k \in DOMAIN c.cells :
                    ~IsNull(c.cells[k]) /\ ~is_blank_str(c.cells[k])}
DistinctText(c) == Cardinality({c.cells[k] : k \in TextValues(c)})

LowCardinality(c) ==
    /\ TextValues(c) # {}
    /\ 2 * DistinctText(c) < Cardinality(TextValues(c))

(* C13: a textual column comes back categorical exactly when it has at     *)
(* least one non-null value and                                            *)
(* distinct / non-null < 0.5, empty and whitespace-only cells counting as  *)
(* null; otherwise it stays free text (dtype object), and a column without *)
(* any non-null value is not made categorical.                             *)
C13_CategoricalRule ==
    tpc = "done" =>
        \A j \in DOMAIN df_at_call :
            Given(j).dtype = "object" =>
                /\ Returned[j].dtype = "category" <=> LowCardinality(Given(j))
                /\ (TextValues(Given(j)) # {} /\ ~LowCardinality(Given(j))) =>
                        Returned[j].dtype = "object"

(* C14: optimize_dataframe_types never changes its argument: at every step *)
(* of the call and after it the argument has the cells and the column      *)
(* dtypes it had when the call began, and the table returned is another    *)
(* object than the argument.                                               *)
C14_InputUntouched ==
    /\ frames[df] = df_at_call
    /\ tpc = "done" => optimized_df # df

C14_Witness ==
    /\ tpc = "done"
    /\ df_module = "json_processing"
    /\ Len(df_at_call) = 2
    /\ \A j \in 1..2 : Returned[j].dtype # Given(j).dtype
    /\ frames[df] = df_at_call

(***************************************************************************)
(* data_processing/nodes.py.  A table handed to the SQL layer is a         *)
(* sequence of named columns, [name |-> ..., cells |-> ...]; the cells are *)
(* strings and NaN.  An argument that may be None is [given |-> FALSE] or  *)
(* [given |-> TRUE, table |-> t].                                          *)
(***************************************************************************)
MaxSqlRows == 2     \* rows of a table handed to process_sql_to_parquet
MaxCalls == 2       \* successive calls of the SQL layer's functions

Named(name, cells) == [name |-> name, cells |-> cells]
Arg(t) == [given |-> TRUE, table |-> t]
NoArg  == [given |-> FALSE, table |-> <<>>]

(* a word of two letters is a token of TfidfVectorizer's default           *)
(* token_pattern, a single letter is not                                   *)
Word   == Str(<<"a", "b">>)
Letter == Str(<<"a">>)

SqlCells == {Word, Letter, NaN}
SqlColumnNames == {"nome", "cv_pt"}

SqlTables ==
    {<<>>} \cup
    {<<Named(nm, c)>> : nm \in SqlColumnNames, c \in SeqsUpTo(SqlCells, MaxSqlRows)}

(* str ordering of the cell values ('a' < 'ab'), for the imputer's tie-break *)
str_less(a, b) == Len(a.chars) < Len(b.chars)

count(cells, v) == Cardinality({k \in DOMAIN cells : cells[k] = v})

(* SimpleImputer(strategy='most_frequent'): the most frequent value of the *)
(* column, the smallest one among equally frequent values                  *)
most_frequent(cells) ==
    LET vals == {cells[k] : k \in notna(cells)}
        best == {v \in vals : \A w \in vals : count(cells, w) <= count(cells, v)}
    IN  CHOOSE v \in best : \A w \in best : w = v \/ str_less(v, w)

impute_column(c) ==
    Named(c.name, [k \in DOMAIN c.cells |->
                     IF IsNull(c.cells[k]) THEN most_frequent(c.cells)
                     ELSE c.cells[k]])

(* TfidfVectorizer(max_features=100).fit_transform(column): the vocabulary *)
(* is the set of tokens of the column, and a row's vector has one weight   *)
(* per term; with documents of one token the normalised vector is 1 at the *)
(* document's token and 0 elsewhere.                                       *)
tokens(v) == IF Len(v.chars) >= 2 THEN {v} ELSE {}
vocabulary(cells) == UNION {tokens(cells[k]) : k \in DOMAIN cells}
embedding(v, vocab) ==
    List([j \in 1..Len(vocab) |-> IF vocab[j] \in tokens(v) THEN Num(1) ELSE Num(0)])


(* col.startswith('cv_'), and the name of the column added for it; no      *)
(* column name of the tables contains 'categoria', so categorical_cols is  *)
(* empty and the OrdinalEncoder is not applied                             *)
startswith_cv(name) == name \in {"cv_pt", "cv_en"}
embedding_name(name) == IF name = "cv_pt" THEN "cv_pt_embedding" ELSE "cv_en_embedding"

TableOk(t)    == [tag |-> "ok", table |-> t, exc |-> ""]
TableRaise(e) == [tag |-> "raise", table |-> <<>>, exc |-> e]
NoOutcome     == [tag |-> "none", table |-> <<>>, exc |-> ""]

(* the loop over cv_cols: one '<col>_embedding' column per cv_ column;     *)
(* fit_transform raises ValueError on an empty vocabulary                  *)
add_embeddings(t) ==
    LET cv == {j \in DOMAIN t : startswith_cv(t[j].name)}
        cvs == SetToSeq(cv)
    IN  IF \E j \in cv : vocabulary(t[j].cells) = {}
        THEN TableRaise("ValueError")
        ELSE TableOk(t \o [k \in DOMAIN cvs |->
                LET c == t[cvs[k]]
                    vocab == SetToSeq(vocabulary(c.cells))
                IN  Named(embedding_name(c.name),
                          [r \in DOMAIN c.cells |-> embedding(c.cells[r], vocab)])])

(* process_sql_to_parquet(sql_query, intermediate_data): the imputer       *)
(* raises ValueError for None, for a table without rows or columns, and    *)
(* the DataFrame built from its output raises ValueError when a column     *)
(* without any value was dropped.  sql_query is not used.                  *)
process_sql_to_parquet(sql_query, intermediate_data) ==
    LET t == intermediate_data.table IN
    IF ~intermediate_data.given THEN TableRaise("ValueError")
    ELSE IF t = <<>> \/ t[1].cells = <<>> THEN TableRaise("ValueError")
    ELSE IF \E j \in DOMAIN t : notna(t[j].cells) = {} THEN TableRaise("ValueError")
    ELSE add_embeddings([j \in DOMAIN t |-> impute_column(t[j])])

(* process_primary_tables: three calls in a row, applicants, prospects,    *)
(* vagas; the first that raises ends the call.  The outcome carries the    *)
(* dict returned.                                                          *)
DictOk(a, p, v) == [tag |-> "ok", exc |-> "",
                    primary_applicants |-> a, primary_prospects |-> p,
                    primary_vagas |-> v]
DictRaise(e)    == [tag |-> "raise", exc |-> e,
                    primary_applicants |-> <<>>, primary_prospects |-> <<>>,
                    primary_vagas |-> <<>>]

process_primary_tables(applicants_sql, prospects_sql, vagas_sql, intermediate_applicants, intermediate_prospects, intermediate_vagas) ==
    LET a == process_sql_to_parquet(applicants_sql, intermediate_applicants)
        p == process_sql_to_parquet(prospects_sql, intermediate_prospects)
        v == process_sql_to_parquet(vagas_sql, intermediate_vagas)
    IN  IF a.tag = "raise" THEN DictRaise(a.exc)
        ELSE IF p.tag = "raise" THEN DictRaise(p.exc)
        ELSE IF v.tag = "raise" THEN DictRaise(v.exc)
        ELSE DictOk(a.table, p.table, v.table)

(***************************************************************************)
(* duckdb.  A connection to ':memory:' starts with no relation; register   *)
(* adds a named relation to the connection it is called on; execute runs a *)
(* query against the relations of that connection.  The queries:           *)
(***************************************************************************)
SelectOne   == "SELECT 1 AS x"
SelectData  == "SELECT * FROM intermediate_data"
SelectApplicants == "SELECT * FROM primary_applicants"
Malformed   == "SELEC"
Queries == {SelectOne, SelectData, SelectApplicants, Malformed}

NoRelations == <<>>
register(relations, name, t) ==
    [n \in DOMAIN relations \cup {name} |-> IF n = name THEN t ELSE relations[n]]

from_relation(relations, name) ==
    IF name \in DOMAIN relations THEN TableOk(relations[name])
    ELSE TableRaise("CatalogException")

execute(relations, sql_query) ==
    CASE sql_query = SelectOne -> TableOk(<<Named("x", <<Num(1)>>)>>)
      [] sql_query = SelectData -> from_relation(relations, "intermediate_data")
      [] sql_query = SelectApplicants -> from_relation(relations, "primary_applicants")
      [] OTHER -> TableRaise("ParserException")

(***************************************************************************)
(* SpecLayer: up to MaxCalls successive calls of process_sql_to_parquet    *)
(* (the process_*_primary wrappers pass their arguments on to it),         *)
(* process_primary_tables and process_core_primary.                        *)
(***************************************************************************)
LayerFrame == UNCHANGED <<numpy_empty_bool, normVars, appVars, batchVars, optVars,
                          typVars, runVars, vagaVars>>

Filled     == <<Named("nome", <<Word>>)>>
Unfilled   == <<Named("nome", <<NaN>>)>>
Cv         == <<Named("cv_pt", <<Word>>)>>
PrimaryInputs == {Filled, Unfilled}
PrimaryQueries == {SelectData, Malformed}
CoreInputs == {Filled, Cv}

Called(fn, sqls, args) ==
    [fn |-> fn, sqls |-> sqls, tables |-> args, log_at_call |-> Len(sql_log)]

LayerInit ==
    /\ numpy_empty_bool = "False"
    /\ connections = <<>> /\ con = 0 /\ sql_log = <<>> /\ call = NoCall
    /\ pending = NoOutcome /\ outcome = NoOutcome /\ calls = 0 /\ lpc = "idle"
    /\ NormIdle /\ AppIdle /\ BatchIdle /\ OptIdle /\ TypIdle /\ RunIdle
    /\ VagaIdle

SqlToParquet ==
    /\ lpc = "idle" /\ calls < MaxCalls
    /\ \E q \in Queries, d \in {NoArg} \cup {Arg(t) : t \in SqlTables} :
        /\ call' = Called("process_sql_to_parquet", <<q>>, <<d>>)
        /\ outcome' = process_sql_to_parquet(q, d)
    /\ calls' = calls + 1
    /\ UNCHANGED <<connections, con, sql_log, pending, lpc>>
    /\ LayerFrame

PrimaryTables ==
    /\ lpc = "idle" /\ calls < MaxCalls
    /\ \E qa \in PrimaryQueries, qp \in PrimaryQueries, qv \in PrimaryQueries,
          a \in PrimaryInputs, p \in PrimaryInputs, v \in PrimaryInputs :
        /\ call' = Called("process_primary_tables", <<qa, qp, qv>>,
                          <<Arg(a), Arg(p), Arg(v)>>)
        /\ outcome' = process_primary_tables(qa, qp, qv, Arg(a), Arg(p), Arg(v))
    /\ calls' = calls + 1
    /\ UNCHANGED <<connections, con, sql_log, pending, lpc>>
    /\ LayerFrame

(* process_core_primary: con = None, try: *)
CoreCall ==
    /\ lpc = "idle" /\ calls < MaxCalls
    /\ \E q \in Queries, a \in CoreInputs, v \in CoreInputs, p \in CoreInputs :
        call' = Called("process_core_primary", <<q>>, <<Arg(a), Arg(v), Arg(p)>>)
    /\ con' = 0
    /\ pending' = NoOutcome
    /\ outcome' = NoOutcome
    /\ calls' = calls + 1
    /\ lpc' = "connect"
    /\ UNCHANGED <<connections, sql_log>>
    /\ LayerFrame

(* con = duckdb.connect(database=':memory:') *)
CoreConnect ==
    /\ lpc = "connect"
    /\ connections' = Append(connections, [open |-> TRUE, relations |-> NoRelations])
    /\ con' = Len(connections) + 1
    /\ lpc' = "register"
    /\ UNCHANGED <<sql_log, call, pending, outcome, calls>>
    /\ LayerFrame

(* the three con.register(...) *)
CoreRegister ==
    /\ lpc = "register"
    /\ connections' = [connections EXCEPT ![con].relations =
          register(register(register(@, "primary_applicants", call.tables[1].table),
                            "primary_vagas", call.tables[2].table),
                   "primary_prospects", call.tables[3].table)]
    /\ lpc' = "execute"
    /\ UNCHANGED <<con, sql_log, call, pending, outcome, calls>>
    /\ LayerFrame

(* df = con.execute(sql_query).df(); on success the info line and return df *)
CoreExecute ==
    /\ lpc = "execute"
    /\ pending' = execute(connections[con].relations, call.sqls[1])
    /\ lpc' = IF pending'.tag = "raise" THEN "except" ELSE "finally"
    /\ UNCHANGED <<connections, con, sql_log, call, outcome, calls>>
    /\ LayerFrame

core_error_line(e) == [fn |-> "process_core_primary", level |-> "error", exc |-> e]

(* except Exception as e: logger.error(...); raise *)
CoreExcept ==
    /\ lpc = "except"
    /\ sql_log' = Append(sql_log, core_error_line(pending.exc))
    /\ lpc' = "finally"
    /\ UNCHANGED <<connections, con, call, pending, outcome, calls>>
    /\ LayerFrame

close(cs, c) == IF c # 0 THEN [cs EXCEPT ![c].open = FALSE] ELSE cs

(* finally: if con is not None: con.close(); then the return or the raise *)
CoreFinally ==
    /\ lpc = "finally"
    /\ connections' = close(connections, con)
    /\ outcome' = pending
    /\ lpc' = "idle"
    /\ UNCHANGED <<con, sql_log, call, pending, calls>>
    /\ LayerFrame

LayerNext ==
    \/ SqlToParquet \/ PrimaryTables
    \/ CoreCall \/ CoreConnect \/ CoreRegister \/ CoreExecute \/ CoreExcept
    \/ CoreFinally

SpecLayer == LayerInit /\ [][LayerNext]_vars

(* the result of the query of call.sqls[k] run against call.tables[k]      *)
(* registered as 'intermediate_data' (against no relation when the table   *)
(* is None)                                                                *)
QueryResult(k) ==
    execute(IF call.tables[k].given
            THEN register(NoRelations, "intermediate_data", call.tables[k].table)
            ELSE NoRelations,
            call.sqls[k])

Finished(fn) == lpc = "idle" /\ call.fn = fn

(* C15: a call of process_sql_to_parquet returns the result of running     *)
(* sql_query against the input table registered for it; without an input   *)
(* table it returns the query's result as well ("SELECT 1 AS x" gives the  *)
(* one-cell table 1), and it fails only where the query fails.             *)
C15_ReturnsQueryResult ==
    Finished("process_sql_to_parquet") =>
        /\ outcome.tag = QueryResult(1).tag
        /\ outcome.tag = "ok" => outcome.table = QueryResult(1).table

OpenConnections == {k \in DOMAIN connections : connections[k].open}

(* the relations the running call of process_core_primary registered *)
Registered ==
    register(register(register(NoRelations,
                               "primary_applicants", call.tables[1].table),
                      "primary_vagas", call.tables[2].table),
             "primary_prospects", call.tables[3].table)

(* C16: every call has acquired an execution context of its own and has    *)
(* released it when it returns or raises: between two calls no context is  *)
(* open and there are as many contexts, all closed, as calls made; the     *)
(* query of a call sees the relations registered in that call and no       *)
(* other.                                                                  *)
C16_ContextPerCall ==
    /\ lpc = "idle" => (OpenConnections = {} /\ Len(connections) = calls)
    /\ lpc = "execute" => connections[con].relations = Registered

(* the part of C16 about the calls of process_core_primary *)
CoreContextReleased ==
    /\ lpc = "idle" => OpenConnections = {}
    /\ lpc = "execute" =>
        (connections[con].relations = Registered /\ OpenConnections = {con})
    /\ Finished("process_core_primary") =>
        \E k \in DOMAIN connections : k = con /\ ~connections[k].open

LoggedByCall == Len(sql_log) - call.log_at_call

(* C17: a call whose query fails logs the failure and raises, returning no *)
(* table, and a call whose query succeeds returns; process_primary_tables  *)
(* returns its three tables exactly when its three queries succeeded and   *)
(* raises when one of them failed.                                         *)
C17_FailureIsFatal ==
    /\ Finished("process_sql_to_parquet") =>
        (QueryResult(1).tag = "raise" =>
            (outcome.tag = "raise" /\ LoggedByCall = 1))
    /\ Finished("process_core_primary") =>
        (pending.tag = "raise" =>
            (outcome.tag = "raise" /\ LoggedByCall = 1))
    /\ Finished("process_primary_tables") =>
        (outcome.tag = "ok" <=>
            \A k \in 1..3 : QueryResult(k).tag = "ok")

(* the part of C17 about the calls of process_core_primary *)
CoreFailureIsFatal ==
    Finished("process_core_primary") =>
        /\ outcome = execute(Registered, call.sqls[1])
        /\ LoggedByCall = IF outcome.tag = "raise" THEN 1 ELSE 0
        /\ outcome.tag = "raise" =>
            sql_log[Len(sql_log)] = core_error_line(outcome.exc)

(***************************************************************************)
(* The pipelines.  A node has a name, the datasets it loads and the        *)
(* datasets it saves.                                                      *)
(***************************************************************************)
process_bronze_data_node ==
    [name |-> "process_bronze_data_node",
     inputs |-> {"raw_applicants", "raw_vagas", "raw_prospects"},
     outputs |-> {"bronze_applicants", "bronze_vagas", "bronze_prospects"}]

process_primary_tables_node ==
    [name |-> "process_primary_tables_node",
     inputs |-> {"sql_applicants", "sql_prospects", "sql_vagas",
                 "intermediate_applicants", "intermediate_prospects",
                 "intermediate_vagas"},
     outputs |-> {"primary_applicants", "primary_prospects", "primary_vagas"}]

process_primary_core_node ==
    [name |-> "process_primary_core_node",
     inputs |-> {"sql_core_join", "primary_applicants", "primary_vagas",
                 "primary_prospects"},
     outputs |-> {"primary_core"}]

create_json_to_parquet_pipeline == {process_bronze_data_node}
create_primary_layer_pipeline ==
    {process_primary_tables_node, process_primary_core_node}

(* register_pipelines(); the sum of two pipelines is the pipeline of the   *)
(* nodes of both                                                           *)
register_pipelines ==
    [n \in {"__default__", "json_processing", "silver_processing", "full"} |->
        CASE n = "json_processing" -> create_json_to_parquet_pipeline
          [] n = "silver_processing" -> create_primary_layer_pipeline
          [] OTHER -> create_json_to_parquet_pipeline
                        \cup create_primary_layer_pipeline]

Nodes == register_pipelines[pipeline_name]

(* the datasets of a pipeline that none of its nodes saves: they have to   *)
(* come from the catalog                                                   *)
pipeline_inputs(nodes) ==
    UNION {n.inputs : n \in nodes} \ UNION {n.outputs : n \in nodes}

AllInputs == pipeline_inputs(register_pipelines["__default__"])

(***************************************************************************)
(* SpecRun: one run.  The runner refuses a pipeline with an input the      *)
(* catalog does not hold; otherwise it runs, one at a time, a node that    *)
(* has not run and whose inputs are all loadable, in an order that is any  *)
(* topological order of the dataset dependencies (the sum of two pipelines *)
(* is built from a set of nodes, so nothing else orders them); a node that *)
(* raises ends the run.                                                    *)
(***************************************************************************)
RunFrame == UNCHANGED <<numpy_empty_bool, normVars, appVars, batchVars, optVars,
                        typVars, layerVars, vagaVars, pipeline_name, catalog>>

RunInit ==
    /\ numpy_empty_bool = "False"
    /\ pipeline_name \in DOMAIN register_pipelines
    /\ catalog \in SUBSET AllInputs
    /\ available = catalog
    /\ ran = <<>>
    /\ rpc = "start"
    /\ NormIdle /\ AppIdle /\ BatchIdle /\ OptIdle /\ TypIdle /\ LayerIdle
    /\ VagaIdle

HasRun(name) == \E k \in DOMAIN ran : ran[k] = name

ready(n) == ~HasRun(n.name) /\ n.inputs \subseteq available

StartRun ==
    /\ rpc = "start"
    /\ rpc' = IF pipeline_inputs(Nodes) \subseteq catalog THEN "running" ELSE "failed"
    /\ UNCHANGED <<available, ran>>
    /\ RunFrame

RunNode ==
    /\ rpc = "running"
    /\ \E n \in Nodes :
        /\ ready(n)
        /\ ran' = Append(ran, n.name)
        /\ available' = available \cup n.outputs
    /\ UNCHANGED rpc
    /\ RunFrame

NodeRaises ==
    /\ rpc = "running"
    /\ \E n \in Nodes : ready(n)
    /\ rpc' = "failed"
    /\ UNCHANGED <<available, ran>>
    /\ RunFrame

EndRun ==
    /\ rpc = "running"
    /\ \A n \in Nodes : HasRun(n.name)
    /\ rpc' = "done"
    /\ UNCHANGED <<available, ran>>
    /\ RunFrame

RunNext == StartRun \/ RunNode \/ NodeRaises \/ EndRun

SpecRun == RunInit /\ [][RunNext]_vars

Before(a, b) == \E i, j \in DOMAIN ran : i < j /\ ran[i] = a /\ ran[j] = b

(* C18: in a run of the default pipeline the per-entity SQL node runs only *)
(* after the flatten/optimize node, and the join node only after the       *)
(* per-entity node, whose three tables are then loadable.                  *)
C18_DependencyOrder ==
    pipeline_name = "__default__" =>
        /\ HasRun("process_primary_tables_node") =>
              Before("process_bronze_data_node", "process_primary_tables_node")
        /\ HasRun("process_primary_core_node") =>
              /\ Before("process_primary_tables_node", "process_primary_core_node")
              /\ process_primary_tables_node.outputs \subseteq available

(* the part of C18 about the join node *)
JoinAfterTables ==
    HasRun("process_primary_core_node") =>
        /\ Before("process_primary_tables_node", "process_primary_core_node")
        /\ process_primary_tables_node.outputs \subseteq available

(***************************************************************************)
(* SpecVaga: one call of features_pipeline.process_vaga_record.  The entry *)
(* is not a mapping, or a mapping whose three sub-objects are each absent, *)
(* null, not a mapping, or a mapping of leaves.                            *)
(***************************************************************************)
VagaInputs ==
    {PyNone, NotMapping} \cup
    {VagaDict(b, p, n) :
        b \in SubChoices(vaga_fields, "informacoes_basicas") \cup {NotMapping},
        p \in SubChoices(vaga_fields, "perfil_vaga") \cup {NotMapping},
        n \in SubChoices(vaga_fields, "beneficios") \cup {NotMapping}}

VagaInit ==
    /\ numpy_empty_bool \in NumpyBuilds
    /\ vaga_data \in VagaInputs
    /\ vaga_result = [out |-> RecNotCalled, lines |-> <<>>]
    /\ vpc = "call"
    /\ NormIdle /\ AppIdle /\ BatchIdle /\ OptIdle /\ TypIdle /\ LayerIdle
    /\ RunIdle

FlattenVaga ==
    /\ vpc = "call"
    /\ vaga_result' = process_vaga_record("v1", vaga_data)
    /\ vpc' = "done"
    /\ UNCHANGED <<numpy_empty_bool, normVars, appVars, batchVars, optVars,
                   typVars, layerVars, runVars, vaga_data>>

VagaNext == FlattenVaga

SpecVaga == VagaInit /\ [][VagaNext]_vars

(* C19: process_vaga_record never swallows a failure.  When the entry or   *)
(* one of its three sub-objects is not a mapping the call raises, after    *)
(* logging the error with the job id and then the entry's key set (or that *)
(* the entry is not a dict); whenever it raises it has logged these two    *)
(* lines; and when it returns it has logged nothing and the record holds   *)
(* the id and every field of the schema.                                   *)
C19_NeverSwallows ==
    vpc = "done" =>
        LET out == vaga_result.out
            lines == vaga_result.lines
            logged ==
                /\ Len(lines) = 2
                /\ lines[1].what = "error" /\ lines[1].id = "v1"
                /\ IF vaga_data.kind = "dict"
                   THEN lines[2].what = "keys"
                        /\ lines[2].keys = DOMAIN vaga_data.items
                   ELSE lines[2].what = "not a dict"
        IN  /\ ~SubObjectsAreMappings(vaga_data, vaga_fields) => out.tag = "raise"
            /\ out.tag = "raise" => logged
            /\ out.tag = "ok" =>
                /\ lines = <<>>
                /\ DOMAIN out.rec = {"id"} \cup OutNames(vaga_fields)
                /\ out.rec.id = Str(<<"v1">>)

C19_Witness ==
    /\ vpc = "done"
    /\ vaga_data.kind = "dict"
    /\ "perfil_vaga" \in DOMAIN vaga_data.items
    /\ vaga_data.items["perfil_vaga"] = PyNone
    /\ "beneficios" \in DOMAIN vaga_data.items
    /\ vaga_result.out.tag = "raise"
    /\ vaga_result.out.exc = "AttributeError"
    /\ Len(vaga_result.lines) = 2

(***************************************************************************)
(* What the three tables are expected to hold, each in terms of its own    *)
(* raw collection alone.                                                   *)
(***************************************************************************)
(* flattening entry k of raw_applicants raises, in either driver *)
ApplicantMalformed(k) ==
    process_applicant_record(raw_applicants[k][1], raw_applicants[k][2]).tag = "raise"
BronzeApplicantMalformed(k) ==
    bronze_record("id", raw_applicants[k][1], applicant_fields,
                  raw_applicants[k][2]).tag = "raise"
BronzeVagaMalformed(k) ==
    bronze_record("id", raw_vagas[k][1], vaga_fields, raw_vagas[k][2]).tag = "raise"

(* the rows group k of raw_prospects has in the prospects table: in        *)
(* features_pipeline all or none, in json_processing those of the elements *)
(* before the first one that is not a mapping                              *)
FeaturesGroupRows(k) ==
    IF GroupRaises(k) THEN 0 ELSE EmbeddedLen(raw_prospects[k][2])
BronzeGroupRows(k) ==
    LET data == raw_prospects[k][2]
        n == EmbeddedLen(data)
        bad == {e \in 1..n : data.items["prospects"].items[e].kind # "dict"}
    IN  IF bad = {} THEN n
        ELSE (CHOOSE e \in bad : \A f \in bad : e <= f) - 1

RECURSIVE GroupIds(_, _)
GroupIds(Rows(_), n) ==
    IF n = 0 THEN <<>>
    ELSE GroupIds(Rows, n - 1) \o [r \in 1..Rows(n) |-> Str(<<raw_prospects[n][1]>>)]

(* a row holds every non-empty leaf of its entry unchanged, and an empty   *)
(* value where the leaf is empty or absent                                 *)
RowMatches(row, fields, data) ==
    \A i \in DOMAIN fields :
        LET leaf == RawLeaf(data, fields[i][2], fields[i][3]) IN
        IF leaf = Absent \/ IsEmptyValue(leaf)
        THEN IsEmptyValue(row[fields[i][1]])
        ELSE row[fields[i][1]] = leaf

TableMatches(rows, raw, Bad(_), fields) ==
    LET good == {k \in DOMAIN raw : ~Bad(k)} IN
    /\ Column(rows, "id") = IdsOf(raw, good, Len(raw))
    /\ \A i, j \in DOMAIN rows : i # j => rows[i]["id"] # rows[j]["id"]
    /\ \A k \in good : \A r \in DOMAIN rows :
          rows[r]["id"] = Str(<<raw[k][1]>>) => RowMatches(rows[r], fields, raw[k][2])

CollectionsIndependent(BadApplicant(_), BadVaga(_), Rows(_)) ==
    /\ pc # "raised"
    /\ pc = "done" =>
        /\ TableMatches(tables.applicants, raw_applicants, BadApplicant,
                        applicant_fields)
        /\ TableMatches(tables.vagas, raw_vagas, BadVaga, vaga_fields)
        /\ Column(tables.prospects, "prospect_id") =
              GroupIds(Rows, Len(raw_prospects))

BronzeCollectionsIndependent ==
    CollectionsIndependent(BronzeApplicantMalformed, BronzeVagaMalformed,
                           BronzeGroupRows)

====
